---- MODULE Spec2Model ----
(***************************************************************************)
(* Model of the transactional commit engine of renku                      *)
(* (renku/core/management/git.py: GitCore.ensure_clean, ensure_untracked,  *)
(* ensure_unstaged, commit, transaction) over a small git repository:      *)
(* a linear history of commits, an index and a working tree.               *)
(*                                                                         *)
(* A path is a sequence of characters, so that Python's str.startswith is  *)
(* computed and not assumed.  A file content is a small number, 0 standing *)
(* for "no such file".  Paths range over files git does not ignore.        *)
(***************************************************************************)
EXTENDS Integers, Sequences, FiniteSets, TLC

\* ------------------------------------------------------------------ bounds
\* Steps the user takes in the working tree before the command starts.
MaxUserSteps == 2
\* Working-tree changes the wrapped operation makes.
MaxOpSteps == 1

\* ------------------------------------------------------------------- paths
\* The allow-listed metadata directory (DATASET_METADATA_PATHS holds
\* directories such as .renku/datasets).
D == <<"d">>
\* A file under D (.renku/datasets/<id>/metadata.yml).
DM == <<"d", "/", "m">>
\* A file outside D whose name begins with the characters of D
\* (.renku/datasets-old).
DO == <<"d", "o">>
\* A file outside D (a data file, or the file a standard stream is
\* redirected to).
F == <<"f">>
Paths == {DM, DO, F}
Dirs == {D}

Absent == 0
Contents == {1, 2}

\* str.startswith
StartsWith(s, pre) ==
    /\ Len(pre) <= Len(s)
    /\ SubSeq(s, 1, Len(pre)) = pre

\* git's pathspec match: the path itself, or a file below the directory.
AtOrUnder(p, spec) == p = spec \/ StartsWith(p, spec \o <<"/">>)

\* Path(path_).exists()
PathExists(w, dirs, path) ==
    IF path \in Paths THEN w[path] # Absent ELSE path \in dirs

\* --------------------------------------------------- the git repository
\* repo.untracked_files: in the working tree, not in the index.
Untracked(idx, w) == {p \in Paths : w[p] # Absent /\ idx[p] = Absent}

\* repo.index.diff(None): index entries whose working-tree file differs
\* (changed or deleted).  a_path = b_path for these entries.
DiffIndexWorktree(idx, w) == {p \in Paths : idx[p] # Absent /\ w[p] # idx[p]}

\* change_type of an entry of repo.index.diff(None).
WorktreeChangeType(idx, w, p) == IF w[p] = Absent THEN "D" ELSE "M"

\* repo.index.diff('HEAD'): paths whose index entry differs from HEAD.
DiffIndexHead(idx, tree) == {p \in Paths : idx[p] # tree[p]}

\* change_type of an entry of repo.index.diff('HEAD').  GitPython diffs the
\* index against a commit in reverse (R=True): a path added to the index
\* reads 'D', a path removed from it reads 'A'.
HeadChangeType(idx, tree, p) ==
    IF tree[p] = Absent THEN "D" ELSE IF idx[p] = Absent THEN "A" ELSE "M"

\* repo.is_dirty(untracked_files=True)
IsDirty(idx, tree, w) ==
    \/ DiffIndexHead(idx, tree) # {}
    \/ DiffIndexWorktree(idx, w) # {}
    \/ Untracked(idx, w) # {}

\* git add <pathspec>...: the index takes the working tree's state of every
\* path a pathspec matches (deletions included).
GitAdd(idx, w, specs) ==
    [p \in Paths |->
        IF \E s \in specs : AtOrUnder(p, s) THEN w[p] ELSE idx[p]]

\* git add --all
GitAddAll(idx, w) == w

\* git reset (mixed): the index is HEAD's tree again.
GitReset(idx, tree) == tree

\* ------------------------------------------------------ standard streams
StreamNames == {"stdin", "stdout", "stderr"}
NoFile == <<>>

\* _mapped_std_streams(lookup_paths): the lookup paths that are the file a
\* standard stream of the process is redirected to.
MappedStdStreams(streams, lookup) ==
    {p \in lookup : \E s \in StreamNames : streams[s] = p}

\* _clean_streams: the file behind stdout or stderr is removed when it has
\* no index entry and rewritten from its index entry otherwise.
CleanStreams(idx, w, streams, lookup) ==
    [p \in Paths |->
        IF p \in lookup /\ (\E s \in {"stdout", "stderr"} : streams[s] = p)
        THEN idx[p] ELSE w[p]]

\* GitCore.dirty_paths
DirtyPaths(idx, w) == Untracked(idx, w) \cup DiffIndexWorktree(idx, w)

\* GitCore.ensure_clean: does it raise DirtyRepository.
EnsureCleanRaises(ignore_std_streams, idx, tree, w, streams) ==
    IF ignore_std_streams
    THEN DirtyPaths(idx, w)
            \ MappedStdStreams(streams, DirtyPaths(idx, w)) # {}
    ELSE IsDirty(idx, tree, w)

\* ----------------------------------------------------- allow-list checks
\* GitCore.ensure_untracked: does it raise DirtyRenkuDirectory.
EnsureUntrackedRaises(idx, w, path) ==
    \E file_path \in Untracked(idx, w) :
        StartsWith(file_path, path) \/ path = file_path

\* GitCore.ensure_unstaged: does it raise DirtyRenkuDirectory.
EnsureUnstagedRaises(idx, tree, path) ==
    \E file_path \in DiffIndexHead(idx, tree) :
        StartsWith(file_path, path) \/ path = file_path

\* ------------------------------------------------------ commit_only values
\* commit_only is None, COMMIT_DIFF_STRATEGY or a list of paths.
CommitAll == [kind |-> "None", paths |-> {}]
COMMIT_DIFF_STRATEGY == [kind |-> "DIFF", paths |-> {}]
DATASET_METADATA_PATHS == [kind |-> "list", paths |-> {D}]
CommitOnlyValues == {CommitAll, COMMIT_DIFF_STRATEGY, DATASET_METADATA_PATHS}

\* ------------------------------------------------------------ commit entry
\* int(time.time() * 1e3) at import, in ms.
STARTED_AT == 2000
\* The age in ms from which an untracked file enters the snapshot.
FRESH_MS == 1000

\* The index after the part of GitCore.commit that runs before the yield:
\* under the diff strategy a git reset when anything is staged or modified.
EntryIndex(commit_only, idx, tree, w) ==
    IF /\ commit_only = COMMIT_DIFF_STRATEGY
       /\ DiffIndexWorktree(idx, w) \cup DiffIndexHead(idx, tree) # {}
    THEN GitReset(idx, tree)
    ELSE idx

\* DiffBefore with every untracked file in the snapshot, whatever its age.
DiffBefore_NoAge(commit_only, idx, tree, w, ct) ==
    IF commit_only = COMMIT_DIFF_STRATEGY
    THEN Untracked(EntryIndex(commit_only, idx, tree, w), w)
    ELSE {}

\* DiffBefore with the snapshot left empty.
DiffBefore_Empty(commit_only, idx, tree, w, ct) == {}

\* diff_before: under the diff strategy the untracked files at least
\* FRESH_MS older than the process start; empty otherwise.
DiffBefore(commit_only, idx, tree, w, ct) ==
    IF commit_only = COMMIT_DIFF_STRATEGY
    THEN {file_ \in Untracked(EntryIndex(commit_only, idx, tree, w), w) :
            STARTED_AT - ct[file_] >= FRESH_MS}
    ELSE {}

\* The allow-list loop before the yield: does it raise DirtyRenkuDirectory.
EntryRaises(commit_only, idx, tree, w) ==
    /\ commit_only.kind = "list"
    /\ \E path_ \in commit_only.paths :
          \/ EnsureUntrackedRaises(idx, w, path_)
          \/ EnsureUnstagedRaises(idx, tree, path_)

\* ---------------------------------------------------------- commit message
\* A Python value: its type and, as a sequence of tokens, its content (the
\* empty sequence for a falsy value).  A string is the sequence of its
\* tokens.
PyNone == [type |-> "NoneType", val |-> <<>>]
PyStr(s) == [type |-> "str", val |-> s]
PyTrue == [type |-> "bool", val |-> <<"True">>]
PyEmptyList == [type |-> "list", val |-> <<>>]
Truthy(v) == v.val # <<>>
CommitMessages == {PyNone, PyStr(<<"msg">>), PyStr(<<>>), PyTrue, PyEmptyList}

\* The user:password@ part of a URL.
CRED == "user:pass@"
\* sys.argv of the process: each argument is a sequence of tokens.
SysArgv == << <<"/usr/bin/", "renku">>, <<"add">>, <<"https://", CRED, "host/x">> >>

\* remove_credentials(arg)
RemoveCredentials(arg) == SelectSeq(arg, LAMBDA t : t # CRED)

\* os.path.basename(sys.argv[0])
Basename(arg) == <<arg[Len(arg)]>>

RECURSIVE Join(_)
\* ' '.join(argv)
Join(args) ==
    IF Len(args) = 0 THEN <<>>
    ELSE IF Len(args) = 1 THEN args[1]
    ELSE args[1] \o <<" ">> \o Join(Tail(args))

\* The message GitCore.commit derives from the command line.
ArgvMessage(argv) ==
    Join(<<Basename(argv[1])>>
         \o [i \in 1..(Len(argv) - 1) |-> RemoveCredentials(argv[i + 1])])

\* ------------------------------------------------------------- commit exit
\* change_types as GitCore.commit builds it: the entries of
\* index.diff(None), overwritten by those of index.diff('HEAD').
ChangeType(idx, tree, w, p) ==
    IF p \in DiffIndexHead(idx, tree) THEN HeadChangeType(idx, tree, p)
    ELSE IF p \in DiffIndexWorktree(idx, w) THEN WorktreeChangeType(idx, w, p)
    ELSE "none"

\* diff_after under the diff strategy.
DiffAfter(idx, tree, w) ==
    Untracked(idx, w) \cup DiffIndexWorktree(idx, w)
        \cup DiffIndexHead(idx, tree)

\* commit_only after the diff strategy replaced it by the list of the paths
\* touched in the command.
SelectedPaths(commit_only, diff_before, idx, tree, w) ==
    IF commit_only = COMMIT_DIFF_STRATEGY
    THEN DiffAfter(idx, tree, w) \ diff_before
    ELSE commit_only.paths

\* The index after the staging part of GitCore.commit: a git add of every
\* selected path that exists or whose change type is 'D', then git add
\* --all when nothing is selected.
StagedIndex(commit_only, diff_before, idx, tree, w, dirs) ==
    LET selected == SelectedPaths(commit_only, diff_before, idx, tree, w)
        change_type(p) ==
            IF commit_only = COMMIT_DIFF_STRATEGY
            THEN ChangeType(idx, tree, w, p) ELSE "none"
        added == {path_ \in selected :
                    PathExists(w, dirs, path_) \/ change_type(path_) = "D"}
    IN  IF selected = {} THEN GitAddAll(idx, w)
        ELSE GitAdd(idx, w, added)

\* ExitOutcome with the empty check done whatever commit_empty says.
ExitOutcome_AlwaysCheckEmpty(commit_empty, raise_if_empty, commit_message, staged, tree) ==
    IF DiffIndexHead(staged, tree) = {}
    THEN IF raise_if_empty THEN "NothingToCommit" ELSE "returned"
    ELSE IF Truthy(commit_message) /\ commit_message.type # "str"
    THEN "CommitMessageEmpty"
    ELSE "committed"

\* ExitOutcome without the empty check.
ExitOutcome_NoEmptyCheck(commit_empty, raise_if_empty, commit_message, staged, tree) ==
    IF Truthy(commit_message) /\ commit_message.type # "str"
    THEN "CommitMessageEmpty"
    ELSE "committed"

\* What the part of GitCore.commit after the staging does.
ExitOutcome(commit_empty, raise_if_empty, commit_message, staged, tree) ==
    IF ~commit_empty /\ DiffIndexHead(staged, tree) = {}
    THEN IF raise_if_empty THEN "NothingToCommit" ELSE "returned"
    ELSE IF Truthy(commit_message) /\ commit_message.type # "str"
    THEN "CommitMessageEmpty"
    ELSE "committed"

\* The message of the commit GitCore.commit creates.
FinalMessage(commit_message, argv) ==
    IF ~Truthy(commit_message) THEN ArgvMessage(argv) ELSE commit_message.val

\* ------------------------------------------------------------------ state
VARIABLES
    commits,   \* the history: a sequence of [tree, message, parent], HEAD last
    index,     \* the index: path -> content
    wt,        \* the working tree: path -> content
    ctime,     \* st_ctime of each working-tree file, in ms
    dirs,      \* the directories of Dirs that exist in the working tree
    streams,   \* stream name -> the file it is redirected to, or NoFile
    pc,        \* "idle" (before the command), "op" (inside the yield), "done"
    call,      \* the arguments of transaction(); those read after the yield
               \* (commit_empty, raise_if_empty, commit_message) are drawn there
    diff_before, \* the local diff_before of GitCore.commit
    steps,     \* steps taken in the current phase
    entry,     \* history variable: head, index and working tree at scope entry
    touched,   \* history variable: the paths the wrapped operation wrote
    outcome,   \* how the scope ended
    outer,     \* the suspended outer scope while a nested scope is active
    \* --- GitCore.worktree
    w_pc,      \* "idle", "inside" (at the yield of worktree()), "done"
    w_args,    \* the arguments of worktree()
    w_parents, \* the commit graph: commit -> the set of its parents
    w_head,    \* the commit of the original branch
    w_branch,  \* the commit of the isolated branch, NoCommit while it has none
    w_tree,    \* the isolated working tree exists
    w_dirty,   \* the isolated working tree has uncommitted files
    w_new_branch, \* the local new_branch of worktree()
    w_outcome, \* how worktree() ended
    w_error,   \* the arguments FailedMerge was raised with
    w_merges,  \* history variable: the merges attempted
    w_steps,   \* the commits made inside the isolated working tree
    \* --- datasets
    d_meta,    \* the metadata files: identifier -> dataset, or NoDataset
    d_refs,    \* refs/datasets: short-name -> identifier
    d_head,    \* the number of commits of the history
    d_ops,     \* the dataset commands run; the clock
    d_pc,      \* "idle", "confirm" (at the yield of file_unlink)
    d_unlink,  \* the dataset and records of file_unlink at its yield
    d_last,    \* the last command, its arguments and how it ended
    d_prev,    \* history variable: metadata, references and head before it
    d_listing, \* what the last ls-tags listed
    \* --- update and export
    x_update,  \* what the last update removed from disk and printed
    x_token,   \* the access token the global configuration holds per provider
    x_http,    \* the calls the last export made and their status codes
    x_export,  \* what the last export exported and where to
    x_history, \* the dataset metadata at each commit of the project
    \* --- what is persisted of the URLs given
    c_persisted, \* where each was stored, what was given and what was stored
    \* --- the tag of an imported version
    v_tag,     \* the version of the record, the tag name made of it, the error
    \* --- renku init
    i_init,    \* its position, its arguments, the scopes open, how it ended
    \* --- a deposition of the Dataverse exporter
    p_deposition \* its identifier, the calls made on it, the last export

\* The variables of the commit scope, of worktree(), of the dataset commands,
\* and of all but the commit scope.
gvars == <<commits, index, wt, ctime, dirs, streams, pc, call, diff_before,
           steps, entry, touched, outcome, outer>>
wvars == <<w_pc, w_args, w_parents, w_head, w_branch, w_tree, w_dirty,
           w_new_branch, w_outcome, w_error, w_merges, w_steps>>
dvars == <<d_meta, d_refs, d_head, d_ops, d_pc, d_unlink, d_last, d_prev,
           d_listing>>
evars == <<x_token, x_http, x_export, x_history>>
xvars == <<x_update, evars, c_persisted, v_tag, i_init, p_deposition>>
ovars == <<wvars, dvars, xvars>>
vars == <<gvars, ovars>>

\* ------------------------------------------------------ GitCore.worktree
\* The commits made inside the isolated working tree are at most this many.
MaxWorkCommits == 2

\* No commit: the value of a branch that has no commit (it is unborn, or
\* it was deleted).
NoCommit == 0
\* The original branch starts with two commits, the second on the first.
FirstCommit == 1
SecondCommit == 2
InitParents == (FirstCommit :> {}) @@ (SecondCommit :> {FirstCommit})

\* The commit argument of worktree(): None, NULL_TREE or a commit.
CommitNone == [kind |-> "None", id |-> NoCommit]
NULL_TREE == [kind |-> "NULL_TREE", id |-> NoCommit]
CommitArg(c) == [kind |-> "commit", id |-> c]
WorktreeCommits ==
    {CommitNone, NULL_TREE, CommitArg(FirstCommit), CommitArg(SecondCommit)}

\* merge_args: the default, and those of a forced init with and without an
\* earlier metadata commit.
FfOnly == <<"--ff-only">>
InitMergeArgs == <<"--no-ff", "-s", "recursive", "-X", "ours">>
WorktreeMergeArgs ==
    {FfOnly, InitMergeArgs,
     InitMergeArgs \o <<"--allow-unrelated-histories">>}
HasArg(args, flag) == \E i \in 1..Len(args) : args[i] = flag

\* branch_name, given or 'renku/run/isolation/' + uuid4().hex.
GeneratedBranch == "renku/run/isolation/uuid"
WorktreeBranchNames == {GeneratedBranch, "renku/init/root"}

RECURSIVE Ancestors(_, _)
\* The commits reachable from c, c included.
Ancestors(parents, c) ==
    IF c = NoCommit THEN {}
    ELSE {c} \cup UNION {Ancestors(parents, q) : q \in parents[c]}

\* The commit a new commit gets.
NewCommit(parents) == Cardinality(DOMAIN parents) + 1

\* git merge <branch> <merge_args> on the original branch: whether it
\* succeeds, and the commit graph and the branch's commit after it.
\* conflict: the two sides hold changes that the strategy cannot combine.
GitMerge(parents, head, tip, merge_args, conflict) ==
    LET fail == [ok |-> FALSE, head |-> head, parents |-> parents]
        merged == [ok |-> TRUE, head |-> NewCommit(parents),
                   parents |-> parents @@
                               (NewCommit(parents) :> {head, tip})]
    IN  IF tip = NoCommit THEN fail
        ELSE IF tip \in Ancestors(parents, head)
        THEN [ok |-> TRUE, head |-> head, parents |-> parents]
        ELSE IF head \in Ancestors(parents, tip)
        THEN IF HasArg(merge_args, "--no-ff") THEN merged
             ELSE [ok |-> TRUE, head |-> tip, parents |-> parents]
        ELSE IF HasArg(merge_args, "--ff-only") THEN fail
        ELSE IF /\ Ancestors(parents, head) \cap Ancestors(parents, tip) = {}
                /\ ~HasArg(merge_args, "--allow-unrelated-histories")
        THEN fail
        ELSE IF conflict THEN fail
        ELSE merged

\* The cleanup of worktree() after a successful merge: is the working tree
\* removed, is the branch deleted, does git raise.  git worktree remove
\* refuses a working tree with uncommitted files.
WorktreeCleanup(delete, new_branch, dirty) ==
    IF ~delete
    THEN [remove |-> FALSE, delete_branch |-> FALSE, outcome |-> "returned"]
    ELSE IF dirty
    THEN [remove |-> FALSE, delete_branch |-> FALSE,
          outcome |-> "GitCommandError"]
    ELSE [remove |-> TRUE, delete_branch |-> new_branch,
          outcome |-> "returned"]

\* WorktreeAfterMerge with the cleanup done before the merge's failure is
\* raised.
WorktreeAfterMerge_CleanupFirst(ok, delete, new_branch, dirty) ==
    IF ok THEN WorktreeCleanup(delete, new_branch, dirty)
    ELSE [WorktreeCleanup(delete, new_branch, dirty)
             EXCEPT !.outcome = "FailedMerge"]

\* The part of worktree() after the merge: a failed merge raises
\* FailedMerge and nothing else runs; a successful one is followed by the
\* cleanup.
WorktreeAfterMerge(ok, delete, new_branch, dirty) ==
    IF ~ok
    THEN [remove |-> FALSE, delete_branch |-> FALSE, outcome |-> "FailedMerge"]
    ELSE WorktreeCleanup(delete, new_branch, dirty)

NoWorktreeArgs ==
    [path |-> FALSE, branch_name |-> GeneratedBranch, commit |-> CommitNone,
     merge_args |-> FfOnly]
NoError == [repo |-> "", branch_name |-> "", merge_args |-> <<>>]

\* worktree() has not been called.
WorktreeIdle ==
    /\ w_pc = "idle"
    /\ w_args = NoWorktreeArgs
    /\ w_parents = InitParents
    /\ w_head = SecondCommit
    /\ w_branch = NoCommit
    /\ w_tree = FALSE
    /\ w_dirty = FALSE
    /\ w_new_branch = FALSE
    /\ w_outcome = "none"
    /\ w_error = NoError
    /\ w_merges = 0
    /\ w_steps = 0

\* ----------------------------------------------------------------- datasets
\* How many dataset commands one behaviour runs.
MaxDatasetOps == 3

\* The names, short-names, files and tag names the commands are given.
DatasetNames == {"a", "b"}
ShortNames == {"a", "b"}
NoShortName == ""
Files == {"f1", "f2"}
MissingPath == "missing"
TagNames == {"1.0", "2.0"}
NoVersion == ""

\* A metadata file that does not exist.
NoDataset == [name |-> "", short_name |-> "", files |-> <<>>, tags |-> <<>>]

\* The path of no metadata file (None).
NoPath == 0

\* generate_default_short_name for a name made of valid characters.
DefaultShortName(name, version) ==
    IF version = NoVersion THEN name ELSE name \o "_" \o version

\* client.get_dataset_path: the metadata path the reference of the name
\* points to.
GetDatasetPath(refs, name) ==
    IF name \in DOMAIN refs THEN refs[name] ELSE NoPath

\* path.exists() of a metadata path.
MetadataExists(meta, path) ==
    path \in 1..Len(meta) /\ meta[path] # NoDataset

\* client.load_dataset(name=...): the path of the loaded dataset, or NoPath.
LoadDataset(meta, refs, name) ==
    LET path == GetDatasetPath(refs, name)
    IN  IF MetadataExists(meta, path) THEN path ELSE NoPath

\* LinkReference.delete of the references named in names.
DeleteRefs(refs, names) ==
    [n \in DOMAIN refs \ names |-> refs[n]]

\* client.create_dataset without the check for an existing dataset.
ClientCreateDataset_NoCheck(meta, refs, name, short_name) ==
    LET short == IF short_name = NoShortName
                 THEN DefaultShortName(name, NoVersion) ELSE short_name
        path == Len(meta) + 1
    IN  [error |-> "",
         meta |-> Append(meta, [name |-> name, short_name |-> short,
                                files |-> <<>>, tags |-> <<>>]),
         refs |-> (short :> path) @@ refs,
         path |-> path]

\* client.create_dataset: a new metadata file under a fresh identifier and
\* the reference refs/datasets/<short_name> to it.
ClientCreateDataset(meta, refs, name, short_name) ==
    LET short == IF short_name = NoShortName
                 THEN DefaultShortName(name, NoVersion) ELSE short_name
        path == Len(meta) + 1
    IN  IF LoadDataset(meta, refs, short) # NoPath
        THEN [error |-> "DatasetExistsError", meta |-> meta, refs |-> refs,
              path |-> NoPath]
        ELSE [error |-> "",
              meta |-> Append(meta, [name |-> name, short_name |-> short,
                                     files |-> <<>>, tags |-> <<>>]),
              refs |-> (short :> path) @@ refs,
              path |-> path]

\* The paths of the files of a dataset.
FilePaths(files) == {files[i].path : i \in 1..Len(files)}

RECURSIVE AppendNew(_, _, _)
\* The files with those of urls that are not among them appended.
AppendNew(files, urls, now) ==
    IF urls = <<>> THEN files
    ELSE AppendNew(
            IF Head(urls) \in FilePaths(files) THEN files
            ELSE Append(files, [path |-> Head(urls), added |-> now]),
            Tail(urls), now)

\* client.add_data_to_dataset: the error it raises and the files of the
\* dataset after it.
AddDataToDataset(files, urls, force, now) ==
    IF \E i \in 1..Len(urls) : urls[i] = MissingPath
    THEN [error |-> "FileNotFoundError", files |-> files]
    ELSE IF ~force /\ \E i \in 1..Len(urls) : urls[i] \in FilePaths(files)
    THEN [error |-> "OperationError", files |-> files]
    ELSE [error |-> "", files |-> AppendNew(files, urls, now)]

\* The two checks add_to_dataset makes of its arguments.
AddUsageError(urls, sources_or_destination) ==
    \/ Len(urls) = 0
    \/ sources_or_destination /\ Len(urls) > 1

\* client.with_dataset up to its yield.
WithDatasetEnter(meta, refs, short_name, create) ==
    LET path == LoadDataset(meta, refs, short_name)
    IN  IF path = NoPath
        THEN IF ~create
             THEN [error |-> "DatasetNotFound", meta |-> meta, refs |-> refs,
                   path |-> NoPath, clean_up_required |-> FALSE]
             ELSE ClientCreateDataset(meta, refs, short_name, short_name)
                      @@ [clean_up_required |-> TRUE]
        ELSE IF create
        THEN [error |-> "DatasetExistsError", meta |-> meta, refs |-> refs,
              path |-> NoPath, clean_up_required |-> FALSE]
        ELSE [error |-> "", meta |-> meta, refs |-> refs, path |-> path,
              clean_up_required |-> FALSE]

\* client.with_dataset when its body raised, without the clean-up.
WithDatasetRaise_NoCleanUp(w, short_name) ==
    [meta |-> w.meta, refs |-> w.refs]

\* client.with_dataset when its body raised: a dataset it created is removed.
WithDatasetRaise(w, short_name) ==
    IF w.clean_up_required
    THEN [meta |-> [w.meta EXCEPT ![w.path] = NoDataset],
          refs |-> DeleteRefs(w.refs, {short_name})]
    ELSE [meta |-> w.meta, refs |-> w.refs]

\* DatasetNotFound with the message add_to_dataset gives it: the dataset does
\* not exist, create it or retry with --create.
DatasetNotFoundHint == "DatasetNotFound: retry with --create"

\* add_to_dataset passing DatasetNotFound on as with_dataset raised it.
AddError_NoHint(error) ==
    IF error = "FileNotFoundError" THEN "ParameterError" ELSE error

\* What add_to_dataset raises to its caller for what was raised inside.
AddError(error) ==
    IF error = "DatasetNotFound" THEN DatasetNotFoundHint
    ELSE IF error = "FileNotFoundError" THEN "ParameterError"
    ELSE error

\* dataset.update_metadata(with_metadata): the name is the imported one.
UpdateMetadata(dataset, with_metadata) ==
    [dataset EXCEPT !.name = with_metadata.name]

\* The metadata an import fetched: no dataset.
NoMetadata == [name |-> "", version |-> NoVersion]

\* add_to_dataset: the outcome, and the metadata and references after it.
AddToDataset(meta, refs, urls, short_name, force, create, srcdst, with_metadata, now) ==
    IF AddUsageError(urls, srcdst)
    THEN [error |-> "UsageError", meta |-> meta, refs |-> refs]
    ELSE
    LET w == WithDatasetEnter(meta, refs, short_name, create)
    IN  IF w.error # ""
        THEN [error |-> AddError(w.error), meta |-> meta, refs |-> refs]
        ELSE
        LET a == AddDataToDataset(w.meta[w.path].files, urls, force, now)
            r == WithDatasetRaise(w, short_name)
            added == [w.meta[w.path] EXCEPT !.files = a.files]
        IN  IF a.error # ""
            THEN [error |-> AddError(a.error), meta |-> r.meta,
                  refs |-> r.refs]
            ELSE [error |-> "",
                  meta |-> [w.meta EXCEPT ![w.path] =
                              IF with_metadata # NoMetadata
                              THEN UpdateMetadata(added, with_metadata)
                              ELSE added],
                  refs |-> w.refs]

\* dataset_remove deleting what the names resolve to before it reports
\* the unknown ones.
DatasetRemove_DeletesFirst(meta, refs, names) ==
    LET datasets == {GetDatasetPath(refs, n) : n \in names} \ {NoPath}
    IN  [error |-> IF names = {} \/ \E n \in names :
                        ~MetadataExists(meta, GetDatasetPath(refs, n))
                   THEN "ParameterError" ELSE "",
         meta |-> [p \in 1..Len(meta) |->
                     IF p \in datasets THEN NoDataset ELSE meta[p]],
         refs |-> DeleteRefs(refs, {n \in DOMAIN refs : refs[n] \in datasets})]

\* dataset_remove without the deletion of the references.
DatasetRemove_KeepsRefs(meta, refs, names) ==
    LET datasets == {GetDatasetPath(refs, n) : n \in names}
    IN  IF names = {} \/ \E n \in names :
                ~MetadataExists(meta, GetDatasetPath(refs, n))
        THEN [error |-> "ParameterError", meta |-> meta, refs |-> refs]
        ELSE [error |-> "",
              meta |-> [p \in 1..Len(meta) |->
                          IF p \in datasets THEN NoDataset ELSE meta[p]],
              refs |-> refs]

\* dataset_remove: the metadata files of the named datasets are unlinked and
\* every reference to one of them is deleted.
DatasetRemove(meta, refs, names) ==
    LET datasets == {GetDatasetPath(refs, n) : n \in names}
    IN  IF names = {} \/ \E n \in names :
                ~MetadataExists(meta, GetDatasetPath(refs, n))
        THEN [error |-> "ParameterError", meta |-> meta, refs |-> refs]
        ELSE [error |-> "",
              meta |-> [p \in 1..Len(meta) |->
                          IF p \in datasets THEN NoDataset ELSE meta[p]],
              refs |-> DeleteRefs(refs,
                          {n \in DOMAIN refs : refs[n] \in datasets})]

\* sorted(seq, key=...), keys[i] being the key of seq[i]: a stable sort.
SortedBy(seq, keys) ==
    LET rank(i) == Cardinality({j \in 1..Len(seq) :
                       \/ keys[j] < keys[i]
                       \/ keys[j] = keys[i] /\ j < i}) + 1
    IN  [k \in 1..Len(seq) |->
            seq[CHOOSE i \in 1..Len(seq) : rank(i) = k]]

TagCreated(tag) == tag.created
FileAdded(file_) == file_.added

\* The tag names of a dataset.
TagNamesOf(tags) == {tags[i].name : i \in 1..Len(tags)}

\* The elements of a sequence that satisfy a test, in their order.
SelectTags(tags, names) == SelectSeq(tags, LAMBDA t : t.name \in names)

\* client.add_dataset_tag without the check for an existing tag.
AddDatasetTag_NoCheck(tags, tag, force, head, now) ==
    [error |-> "",
     tags |-> Append(tags, [name |-> tag, commit |-> head, created |-> now])]

\* client.add_dataset_tag: the tag refers to the current head commit; a tag
\* of the same name is an error, or is replaced when force is set.
AddDatasetTag(tags, tag, force, head, now) ==
    IF tag \in TagNamesOf(tags) /\ ~force
    THEN [error |-> "ValueError: already exists", tags |-> tags]
    ELSE [error |-> "",
          tags |-> Append(SelectTags(tags, TagNamesOf(tags) \ {tag}),
                          [name |-> tag, commit |-> head, created |-> now])]

\* client.remove_dataset_tags: every name must be a tag of the dataset.
ClientRemoveDatasetTags(tags, names) ==
    IF names \ TagNamesOf(tags) # {}
    THEN [error |-> "ValueError: not found", tags |-> tags]
    ELSE [error |-> "",
          tags |-> SelectTags(tags, TagNamesOf(tags) \ names)]

\* What tag_dataset and remove_dataset_tags raise for a ValueError.
TagError(error) ==
    IF error = "ValueError: already exists"
    THEN "ParameterError: already exists"
    ELSE IF error = "ValueError: not found" THEN "ParameterError: not found"
    ELSE error

\* tag_dataset: the error and the metadata after it.
TagDataset(meta, refs, name, tag, force, head, now) ==
    LET path == LoadDataset(meta, refs, name)
    IN  IF path = NoPath
        THEN [error |-> "ParameterError", meta |-> meta]
        ELSE LET t == AddDatasetTag(meta[path].tags, tag, force, head, now)
             IN  [error |-> TagError(t.error),
                  meta |-> [meta EXCEPT ![path].tags = t.tags]]

\* remove_dataset_tags: the error and the metadata after it.
RemoveDatasetTags(meta, refs, name, tags) ==
    LET path == LoadDataset(meta, refs, name)
    IN  IF path = NoPath
        THEN [error |-> "ParameterError", meta |-> meta]
        ELSE LET t == ClientRemoveDatasetTags(meta[path].tags, tags)
             IN  [error |-> TagError(t.error),
                  meta |-> [meta EXCEPT ![path].tags = t.tags]]

\* list_tags without the sort.
ListTags_Reversed(meta, refs, name) ==
    LET path == LoadDataset(meta, refs, name)
        tags == IF path = NoPath THEN <<>> ELSE meta[path].tags
    IN  [error |-> IF path = NoPath THEN "ParameterError" ELSE "",
         tags |-> [i \in 1..Len(tags) |-> tags[Len(tags) + 1 - i]]]

\* list_tags: the tags of the dataset by creation time.
ListTags(meta, refs, name) ==
    LET path == LoadDataset(meta, refs, name)
    IN  IF path = NoPath
        THEN [error |-> "ParameterError", tags |-> <<>>]
        ELSE [error |-> "",
              tags |-> SortedBy(meta[path].tags,
                          [i \in 1..Len(meta[path].tags) |->
                              TagCreated(meta[path].tags[i])])]

\* The file patterns of --include and --exclude, and whether a path matches.
Patterns == {"f1", "*"}
Match(path, pattern) == pattern = "*" \/ pattern = path

\* The creator of every file.
FileCreators == {"me"}

\* _include_exclude with the include patterns tried first.
IncludeExclude_IncludeFirst(file_path, include, exclude) ==
    IF include # {} /\ \E pattern \in include : Match(file_path, pattern)
    THEN TRUE
    ELSE IF \E pattern \in exclude : Match(file_path, pattern) THEN FALSE
    ELSE include = {}

\* _include_exclude
IncludeExclude(file_path, include, exclude) ==
    IF \E pattern \in exclude : Match(file_path, pattern) THEN FALSE
    ELSE IF include # {}
    THEN \E pattern \in include : Match(file_path, pattern)
    ELSE TRUE

RECURSIVE Concat(_)
\* The concatenation of a sequence of sequences.
Concat(seqs) ==
    IF seqs = <<>> THEN <<>> ELSE Head(seqs) \o Concat(Tail(seqs))

\* _filter: the matching files of the datasets whose short_name is among
\* names (of all datasets when names is empty), by the time they were added.
Filter(meta, names, creators, include, exclude) ==
    LET of(p) ==
            IF meta[p] # NoDataset
               /\ (names = {} \/ meta[p].short_name \in names)
            THEN SelectSeq(
                    [i \in 1..Len(meta[p].files) |->
                        [dataset |-> p] @@ meta[p].files[i]],
                    LAMBDA f : /\ IncludeExclude(f.path, include, exclude)
                               /\ creators \subseteq FileCreators)
            ELSE <<>>
        records == Concat([p \in 1..Len(meta) |-> of(p)])
    IN  SortedBy(records,
                 [i \in 1..Len(records) |-> FileAdded(records[i])])

\* file_unlink up to its yield: the error, or the records it yields.
FileUnlinkRecords(meta, refs, name, include, exclude) ==
    LET path == LoadDataset(meta, refs, name)
        records == Filter(meta, {meta[path].name}, {}, include, exclude)
    IN  IF path = NoPath
        THEN [error |-> "ParameterError", dataset |-> NoPath,
              records |-> <<>>]
        ELSE IF records = <<>>
        THEN [error |-> "ParameterError", dataset |-> path,
              records |-> <<>>]
        ELSE [error |-> "", dataset |-> path, records |-> records]

\* dataset.unlink_file for every record: the files of the dataset without
\* those the records name.
UnlinkFiles(meta, path, records) ==
    [meta EXCEPT ![path].files =
        SelectSeq(@, LAMBDA f :
            ~\E i \in 1..Len(records) :
                records[i].dataset = path /\ records[i].path = f.path)]

\* GitCore.commit around a command: no commit when the command raised, or
\* when it changed nothing and commit_empty is off.
CommandCommits(error, changed, commit_empty) ==
    error = "" /\ (commit_empty \/ changed)

\* What the command ends with.
CommandOutcome(error, changed, commit_empty, raise_if_empty) ==
    IF error # "" THEN error
    ELSE IF ~commit_empty /\ ~changed
    THEN IF raise_if_empty THEN "NothingToCommit" ELSE "returned"
    ELSE "committed"

\* ------------------------------------------------------------------ update
\* How many updates are run.
MaxUpdates == 2

\* The git repositories files were added from, and the based_on of a file
\* that was not added from one.
Remotes == {"R1", "R2"}
NoBasedOn == [url |-> "", label |-> 0]

\* What identifies a record: its dataset and its path.
RecordKey(record) == <<record.dataset, record.path>>

\* The records update may update: those with a based_on.
PossibleUpdates(records) == SelectSeq(records, LAMBDA f : f.based_on # NoBasedOn)

\* The repositories the records that may be updated come from.
UniqueRemotes(records) ==
    {records[i].based_on.url : i \in
        {j \in 1..Len(records) : records[j].based_on # NoBasedOn}}

\* update_datasets without the check of the repositories.
UpdateError_IgnoresRemotes(records, ref) ==
    IF records = <<>> THEN "ParameterError" ELSE ""

\* What update_datasets raises before it updates anything.
UpdateError(records, ref) ==
    IF records = <<>> THEN "ParameterError"
    ELSE IF ref /\ Cardinality(UniqueRemotes(records)) > 1
    THEN "ParameterError"
    ELSE ""

\* client.update_dataset_files: a file whose upstream is gone at the target
\* is reported, and with delete its local copy and its entry in the metadata
\* are removed; a file whose upstream is newer is updated in place.
UpdateDatasetFiles(meta, files, delete, gone, newer) ==
    LET keys == {RecordKey(files[i]) : i \in 1..Len(files)}
        deleted_files == keys \cap gone
        update(p, f) ==
            IF <<p, f.path>> \in (keys \cap newer) \ gone
            THEN [f EXCEPT !.based_on.label = @ + 1] ELSE f
    IN  [deleted_files |-> deleted_files,
         removed |-> IF delete THEN deleted_files ELSE {},
         meta |-> [p \in 1..Len(meta) |->
                     IF meta[p] = NoDataset THEN NoDataset
                     ELSE [meta[p] EXCEPT !.files =
                             LET kept == SelectSeq(@, LAMBDA f :
                                     ~(delete /\ <<p, f.path>> \in deleted_files))
                             IN  [i \in 1..Len(kept) |-> update(p, kept[i])]]]]

\* update_datasets printing the message whatever the delete flag says.
UpdateEcho_Always(deleted_files, delete) == deleted_files # {}

\* update_datasets prints that files were deleted from the remote.
UpdateEcho(deleted_files, delete) == deleted_files # {} /\ ~delete

\* No update has run.
NoUpdate == [removed |-> {}, echo |-> FALSE]

\* ------------------------------------------------------------------ export
\* How many exports are run.
MaxExports == 2

\* The providers ProviderFactory knows, and one it does not know.
Providers == {"zenodo", "dataverse"}
UnknownProvider == "nowhere"

\* No token (None), the empty token and a token.
NoToken == "None"
EmptyToken == ""
Tokens == {"tok"}

\* No tag was named.
NoTag == ""

\* The status codes of the deposit calls.
HTTP_CREATED == 201

\* How the server answers the calls of one export.
Servers ==
    { [create |-> HTTP_CREATED, upload |-> 200, publish |-> 200],
      [create |-> 401, upload |-> 401,
       publish |-> 401],
      [create |-> 500, upload |-> 200, publish |-> 200],
      [create |-> HTTP_CREATED, upload |-> 500, publish |-> 200],
      [create |-> HTTP_CREATED, upload |-> 200, publish |-> 500] }

\* response.status_code of a failed call.
Failed(status) == status >= 400

NoDestination == ""

\* _DataverseDeposition.create_dataset
DepositionCreate(server) ==
    [http |-> << [call |-> "create", status |-> server.create] >>,
     error |-> IF server.create # HTTP_CREATED
               THEN "OperationError" ELSE "",
     dataset_pid |-> IF server.create # HTTP_CREATED
                     THEN NoDestination ELSE "pid"]

\* upload_file without the test of the identifier.
DepositionUpload_Unchecked(dataset_pid, file_, server) ==
    [http |-> << [call |-> "upload", status |-> server.upload] >>,
     error |-> ""]

\* _DataverseDeposition.upload_file: the response is returned as it is.
DepositionUpload(dataset_pid, file_, server) ==
    IF dataset_pid = NoDestination
    THEN [http |-> <<>>, error |-> "ValueError: Dataset not created."]
    ELSE [http |-> << [call |-> "upload", status |-> server.upload] >>,
          error |-> ""]

\* _DataverseDeposition.publish_dataset: the response is returned as it is.
DepositionPublish(dataset_pid, server) ==
    IF dataset_pid = NoDestination
    THEN [http |-> <<>>, error |-> "ValueError: Dataset not created."]
    ELSE [http |-> << [call |-> "publish", status |-> server.publish] >>,
          error |-> ""]

\* The uploads of DataverseExporter.export: one per file, in order, up to
\* the first that raises.
RECURSIVE DepositionUploads(_, _, _)
DepositionUploads(dataset_pid, files, server) ==
    IF files = <<>> THEN [http |-> <<>>, error |-> ""]
    ELSE LET u == DepositionUpload(dataset_pid, Head(files), server)
             rest == DepositionUploads(dataset_pid, Tail(files), server)
         IN  IF u.error # "" THEN u
             ELSE [http |-> u.http \o rest.http, error |-> rest.error]

\* DataverseExporter.export
DataverseExport(files, publish, server) ==
    LET c == DepositionCreate(server)
        u == DepositionUploads(c.dataset_pid, files, server)
        p == IF publish THEN DepositionPublish(c.dataset_pid, server)
             ELSE [http |-> <<>>, error |-> ""]
    IN  IF c.error # ""
        THEN [http |-> c.http, error |-> c.error,
              destination |-> NoDestination]
        ELSE IF u.error # ""
        THEN [http |-> c.http \o u.http, error |-> u.error,
              destination |-> NoDestination]
        ELSE IF p.error # ""
        THEN [http |-> c.http \o u.http \o p.http, error |-> p.error,
              destination |-> NoDestination]
        ELSE [http |-> c.http \o u.http \o p.http, error |-> "",
              destination |-> c.dataset_pid]

\* What the Zenodo calls raise: requests.HTTPError, with a message that
\* says unauthorized when the token was refused.
ZenodoError(status) ==
    IF status = 401 THEN "HTTPError: Access unauthorized"
    ELSE IF Failed(status) THEN "HTTPError" ELSE ""

\* ZenodoExporter.export: create, upload each file, publish; the first
\* failed call raises.
ZenodoExport(files, publish, server) ==
    LET create == << [call |-> "create", status |-> server.create] >>
        uploads == IF files = <<>> THEN <<>>
                   ELSE IF Failed(server.upload)
                   THEN << [call |-> "upload", status |-> server.upload] >>
                   ELSE [i \in 1..Len(files) |->
                            [call |-> "upload", status |-> server.upload]]
        published == IF publish
                     THEN << [call |-> "publish", status |-> server.publish] >>
                     ELSE <<>>
    IN  IF Failed(server.create)
        THEN [http |-> create, error |-> ZenodoError(server.create),
              destination |-> NoDestination]
        ELSE IF files # <<>> /\ Failed(server.upload)
        THEN [http |-> create \o uploads,
              error |-> ZenodoError(server.upload),
              destination |-> NoDestination]
        ELSE IF publish /\ Failed(server.publish)
        THEN [http |-> create \o uploads \o published,
              error |-> ZenodoError(server.publish),
              destination |-> NoDestination]
        ELSE [http |-> create \o uploads \o published, error |-> "",
              destination |-> "doi"]

\* exporter.export of the provider's exporter.
ExporterExport(provider_id, files, publish, server) ==
    IF provider_id = "dataverse"
    THEN DataverseExport(files, publish, server)
    ELSE ZenodoExport(files, publish, server)

\* except HTTPError as e, and 'unauthorized' in str(e).
IsHTTPError(error) == error \in {"HTTPError", "HTTPError: Access unauthorized"}
SaysUnauthorized(error) == error = "HTTPError: Access unauthorized"

\* The stored tokens after exporter.export ended with this error.
TokenAfterExport(token, provider_id, error) ==
    IF IsHTTPError(error) /\ SaysUnauthorized(error)
    THEN [token EXCEPT ![provider_id] = NoToken]
    ELSE token

\* The tag export_dataset selects: an index into the tags, 0 for none,
\* -1 when the named tag is not found.
SelectedTag(tags, tag, tag_result) ==
    IF tag # NoTag
    THEN IF \E i \in 1..Len(tags) : tags[i].name = tag
         THEN CHOOSE i \in 1..Len(tags) :
                  /\ tags[i].name = tag
                  /\ \A j \in 1..(i - 1) : tags[j].name # tag
         ELSE -1
    ELSE IF Len(tags) > 0 /\ tag_result \in 1..Len(tags) THEN tag_result
    ELSE 0

\* export_dataset exporting from HEAD whatever was selected.
SelectedCommit_Head(tags, selected, head) == head

\* The commit export_dataset exports from.
SelectedCommit(tags, selected, head) ==
    IF selected > 0 THEN tags[selected].commit ELSE head

\* client.with_commit: the metadata of the project at the commit.
WithCommit(history, commit) == history[commit]

NoExport == [commit |-> 0, files |-> <<>>, destination |-> NoDestination,
             result |-> "", access_token |-> NoToken, stored |-> NoToken]

\* What handle_access_token_fn gives when there is none to call.
NoCallback == "no callback"
\* access_token after 'if handle_access_token_fn:'.
CallbackToken(entered) == IF entered = NoCallback THEN NoToken ELSE entered

\* InvalidToken accepting the empty string.
InvalidToken_EmptyAccepted(access_token) == access_token = NoToken

\* access_token is None or len(access_token) == 0
InvalidToken(access_token) ==
    access_token = NoToken \/ access_token = EmptyToken

\* export_dataset: what it raises, the tokens it leaves, the calls it made
\* and what it exported.
ExportDataset(meta, refs, head, history, token, id, provider_id, publish, tag, entered, tag_result, server) ==
    LET path == LoadDataset(meta, refs, id)
        failed(error) == [error |-> error, token |-> token, http |-> <<>>,
                          export |-> NoExport]
    IN  IF path = NoPath THEN failed("DatasetNotFound")
        ELSE IF provider_id \notin Providers
        THEN failed("ValueError: Unknown provider.")
        ELSE
        LET tags == meta[path].tags
            selected == SelectedTag(tags, tag, tag_result)
        IN  IF selected = -1 THEN failed("ValueError: Tag not found")
            ELSE
            LET commit == SelectedCommit(tags, selected, head)
                at == WithCommit(history, commit)
                there == LoadDataset(at, refs, id)
                stored == token[provider_id]
                access_token == IF stored = NoToken
                                THEN CallbackToken(entered) ELSE stored
            IN  IF there = NoPath THEN failed("DatasetNotFound")
                ELSE IF stored = NoToken /\ InvalidToken(access_token)
                THEN failed("InvalidAccessToken")
                ELSE
                LET set == [token EXCEPT ![provider_id] = access_token]
                    files == [i \in 1..Len(at[there].files) |->
                                 at[there].files[i].path]
                    r == ExporterExport(provider_id, files, publish, server)
                IN  [error |-> r.error,
                     token |-> TokenAfterExport(set, provider_id, r.error),
                     http |-> r.http,
                     export |-> [commit |-> commit, files |-> files,
                                 destination |-> r.destination,
                                 result |-> IF r.error = "" THEN "Exported to"
                                            ELSE "",
                                 access_token |-> access_token,
                                 stored |-> set[provider_id]]]

\* --------------------------------------------- the tag name of a version
\* How long a version string is.
MaxVersionLen == 3

\* The characters of the version strings, by code point: space, hyphen,
\* full stop, slash, 1, underscore and a.
VersionChars == {32, 45, 46, 47, 49, 95, 97}

\* The version strings of the imported records.
Versions ==
    UNION {[1..n -> VersionChars] : n \in 1..MaxVersionLen}

\* The characters the class [a-zA-Z0-9.-_] matches: a to z, A to Z, 0 to 9
\* and the range from the full stop to the underscore.
InClass(c) ==
    \/ c \in 97..122
    \/ c \in 65..90
    \/ c \in 48..57
    \/ c \in 46..95

\* re.sub('[^a-zA-Z0-9.-_]', '_', version)
ImportTagName(version) ==
    [i \in 1..Len(version) |-> IF InClass(version[i]) THEN version[i] ELSE 95]

\* The names a tag may have: [a-zA-Z0-9.\-_]+
ValidTagChar(c) ==
    \/ c \in 97..122
    \/ c \in 65..90
    \/ c \in 48..57
    \/ c \in {46, 45, 95}

ValidTagName(name) ==
    Len(name) > 0 /\ \A i \in 1..Len(name) : ValidTagChar(name[i])

NoImportTag == [version |-> <<>>, tag_name |-> <<>>, outcome |-> "none"]

\* Nothing was removed, printed, stored or exported.
\* A deposition as its constructor leaves it, no call made on it, and no
\* export run.
NoDeposition ==
    [dataset_pid |-> NoDestination, log |-> <<>>,
     export |-> [files |-> <<>>, publish |-> FALSE, http |-> <<>>,
                 error |-> "none"]]

\* renku init has not been called.
NoInit ==
    [pc |-> "idle", force |-> FALSE, previous |-> 0, trace |-> <<>>,
     open |-> {}, outcome |-> "none"]

OutputIdle ==
    /\ x_update = NoUpdate
    /\ x_token = [p \in Providers |-> NoToken]
    /\ x_http = <<>>
    /\ x_export = NoExport
    /\ x_history = <<>>
    /\ c_persisted = {}
    /\ v_tag = NoImportTag
    /\ i_init = NoInit
    /\ p_deposition = NoDeposition

\* No dataset command has run.
NoCommand == [cmd |-> "", name |-> "", args |-> <<>>, outcome |-> "none"]

\* No file_unlink is at its yield.
NoUnlink == [dataset |-> NoPath, records |-> <<>>]

\* A project without datasets, one commit in its history.
DatasetIdle ==
    /\ d_meta = <<>>
    /\ d_refs = <<>>
    /\ d_head = 1
    /\ d_ops = 0
    /\ d_pc = "idle"
    /\ d_unlink = NoUnlink
    /\ d_last = NoCommand
    /\ d_prev = [meta |-> <<>>, refs |-> <<>>, head |-> 1]
    /\ d_listing = <<>>

\* repo.head.commit and its tree.
HEAD == Len(commits)
HEADTree == commits[HEAD].tree

\* The trees a project starts from: an empty first commit, or one that
\* tracks a metadata file and a data file.
InitTrees == { [p \in Paths |-> Absent],
               [p \in Paths |-> IF p = DO THEN Absent ELSE 1] }

NoStreams == [s \in StreamNames |-> NoFile]
\* No redirection, stdout redirected to F, stdin redirected from F.
StreamConfigs == { NoStreams,
                   [NoStreams EXCEPT !["stdout"] = F],
                   [NoStreams EXCEPT !["stdin"] = F] }

\* The times at which the user may have written a file: exactly FRESH_MS
\* before the process start, and one ms later.
UserTimes == {STARTED_AT - FRESH_MS, STARTED_AT - FRESH_MS + 1}
\* The time of a write of the wrapped operation (after the process start).
OpTime == STARTED_AT + 1

DefaultCall ==
    [clean |-> FALSE, ignore_std_streams |-> FALSE, commit |-> TRUE,
     commit_only |-> CommitAll, commit_empty |-> TRUE,
     raise_if_empty |-> FALSE, commit_message |-> PyNone]

DirsFor(p) == {d \in Dirs : AtOrUnder(p, d)}

\* No nested scope is active, and none has run.
NoFrame ==
    [active |-> FALSE, ran |-> FALSE, call |-> DefaultCall,
     diff_before |-> {},
     entry |-> [head |-> 1, index |-> [p \in Paths |-> Absent],
                wt |-> [p \in Paths |-> Absent]]]

\* The working tree, the index and the commit scope before any command.
InitGit ==
    \E tree \in InitTrees, sc \in StreamConfigs :
        /\ commits = << [tree |-> tree, message |-> <<"init">>, parent |-> 0] >>
        /\ index = tree
        \* The shell opened the redirected file just before the start.
        /\ wt = IF sc = NoStreams THEN tree ELSE [tree EXCEPT ![F] = 2]
        /\ ctime = [p \in Paths |->
                      IF sc # NoStreams /\ p = F
                      THEN STARTED_AT - FRESH_MS + 1 ELSE 0]
        /\ dirs = IF tree[DM] # Absent THEN {D} ELSE {}
        /\ streams = sc
        /\ pc = "idle"
        /\ call = DefaultCall
        /\ diff_before = {}
        /\ steps = 0
        /\ entry = [head |-> 1, index |-> tree, wt |-> tree]
        /\ touched = {}
        /\ outcome = "none"
        /\ outer = NoFrame

\* The repository before any command: nothing of GitCore is running.
InitRepository == InitGit /\ WorktreeIdle

Init == InitRepository /\ DatasetIdle /\ OutputIdle

\* ------------------------------------------------- before the command runs
\* The user writes a file.
UserWrite(p, c, t) ==
    /\ pc = "idle" /\ steps < MaxUserSteps
    /\ wt[p] # c
    /\ wt' = [wt EXCEPT ![p] = c]
    /\ ctime' = [ctime EXCEPT ![p] = t]
    /\ dirs' = dirs \cup DirsFor(p)
    /\ steps' = steps + 1
    /\ UNCHANGED <<outer, commits, index, streams, pc, call, diff_before, entry,
                   touched, outcome>>
    /\ UNCHANGED ovars

\* The user deletes a file; a stream that was redirected to it no longer
\* has a path.
UserDelete(p) ==
    /\ pc = "idle" /\ steps < MaxUserSteps
    /\ wt[p] # Absent
    /\ wt' = [wt EXCEPT ![p] = Absent]
    /\ streams' = [s \in StreamNames |->
                      IF streams[s] = p THEN NoFile ELSE streams[s]]
    /\ steps' = steps + 1
    /\ UNCHANGED <<outer, commits, index, ctime, dirs, pc, call, diff_before, entry,
                   touched, outcome>>
    /\ UNCHANGED ovars

\* The user runs git add on a file.
UserAdd(p) ==
    /\ pc = "idle" /\ steps < MaxUserSteps
    /\ index[p] # wt[p]
    /\ index' = GitAdd(index, wt, {p})
    /\ steps' = steps + 1
    /\ UNCHANGED <<outer, commits, wt, ctime, dirs, streams, pc, call, diff_before,
                   entry, touched, outcome>>
    /\ UNCHANGED ovars

\* ---------------------------------------------------------- the transaction
RecordEntry == entry' = [head |-> HEAD, index |-> index, wt |-> wt]

\* GitCore.transaction: ensure_clean raises DirtyRepository, after
\* _clean_streams; nothing is yielded.
TransactionDirty(ignore_std_streams, commit, commit_only) ==
    /\ pc = "idle"
    /\ EnsureCleanRaises(ignore_std_streams, index, HEADTree, wt, streams)
    /\ wt' = CleanStreams(index, wt, streams, DirtyPaths(index, wt))
    /\ call' = [DefaultCall EXCEPT !.clean = TRUE,
                  !.ignore_std_streams = ignore_std_streams,
                  !.commit = commit, !.commit_only = commit_only]
    /\ pc' = "done"
    /\ outcome' = "DirtyRepository"
    /\ RecordEntry
    /\ UNCHANGED <<outer, commits, index, ctime, dirs, streams, diff_before, steps,
                   touched>>
    /\ UNCHANGED ovars

\* ensure_clean passed or was not asked for, and the allow-list loop of
\* GitCore.commit raises DirtyRenkuDirectory; nothing is yielded.
CommitDirty(clean, ignore_std_streams, commit_only) ==
    /\ pc = "idle"
    /\ clean => ~EnsureCleanRaises(ignore_std_streams, index, HEADTree, wt,
                                   streams)
    /\ EntryRaises(commit_only, index, HEADTree, wt)
    /\ call' = [DefaultCall EXCEPT !.clean = clean,
                  !.ignore_std_streams = ignore_std_streams,
                  !.commit_only = commit_only]
    /\ pc' = "done"
    /\ outcome' = "DirtyRenkuDirectory"
    /\ RecordEntry
    /\ UNCHANGED <<outer, commits, index, wt, ctime, dirs, streams, diff_before,
                   steps, touched>>
    /\ UNCHANGED ovars

\* The checks pass: the scope is entered and the wrapped operation starts.
\* With commit=True this is the part of GitCore.commit before its yield.
TransactionEnter(clean, ignore_std_streams, commit, commit_only) ==
    /\ pc = "idle"
    /\ clean => ~EnsureCleanRaises(ignore_std_streams, index, HEADTree, wt,
                                   streams)
    /\ commit => ~EntryRaises(commit_only, index, HEADTree, wt)
    /\ index' = IF commit THEN EntryIndex(commit_only, index, HEADTree, wt)
                ELSE index
    /\ diff_before' = IF commit
                      THEN DiffBefore(commit_only, index, HEADTree, wt, ctime)
                      ELSE {}
    /\ call' = [DefaultCall EXCEPT !.clean = clean,
                  !.ignore_std_streams = ignore_std_streams,
                  !.commit = commit, !.commit_only = commit_only]
    /\ pc' = "op"
    /\ steps' = 0
    /\ RecordEntry
    /\ UNCHANGED <<outer, commits, wt, ctime, dirs, streams, touched, outcome>>
    /\ UNCHANGED ovars

\* ------------------------------------------------------ the wrapped operation
\* The operation writes a file of the working tree.
OpWrite(p, c) ==
    /\ pc = "op" /\ steps < MaxOpSteps
    /\ wt[p] # c
    /\ wt' = [wt EXCEPT ![p] = c]
    /\ ctime' = [ctime EXCEPT ![p] = OpTime]
    /\ dirs' = dirs \cup DirsFor(p)
    /\ touched' = touched \cup {p}
    /\ steps' = steps + 1
    /\ UNCHANGED <<outer, commits, index, streams, pc, call, diff_before, entry,
                   outcome>>
    /\ UNCHANGED ovars

\* The operation deletes a file of the working tree.
OpDelete(p) ==
    /\ pc = "op" /\ steps < MaxOpSteps
    /\ wt[p] # Absent
    /\ wt' = [wt EXCEPT ![p] = Absent]
    /\ touched' = touched \cup {p}
    /\ steps' = steps + 1
    /\ UNCHANGED <<outer, commits, index, ctime, dirs, streams, pc, call,
                   diff_before, entry, outcome>>
    /\ UNCHANGED ovars

\* OpRaise as it would be with the commit in a finally clause.
OpRaise_CommitsAnyway ==
    /\ pc = "op"
    /\ pc' = "done"
    /\ outcome' = "OperationError"
    /\ index' = IF call.commit THEN GitAddAll(index, wt) ELSE index
    /\ commits' = IF call.commit
                  THEN Append(commits, [tree |-> GitAddAll(index, wt),
                                        message |-> ArgvMessage(SysArgv),
                                        parent |-> HEAD])
                  ELSE commits
    /\ UNCHANGED <<outer, wt, ctime, dirs, streams, call, diff_before, steps, entry,
                   touched>>
    /\ UNCHANGED ovars

\* The operation raises: the generator behind the context manager is not
\* resumed normally, so nothing after the yield runs.
OpRaise ==
    /\ pc = "op"
    /\ pc' = "done"
    /\ outcome' = "OperationError"
    /\ UNCHANGED <<outer, commits, index, wt, ctime, dirs, streams, call,
                   diff_before, steps, entry, touched>>
    /\ UNCHANGED ovars

\* The operation returns inside transaction(commit=False).
TransactionExit ==
    /\ pc = "op" /\ ~call.commit /\ ~outer.active
    /\ pc' = "done"
    /\ outcome' = "yielded"
    /\ UNCHANGED <<outer, commits, index, wt, ctime, dirs, streams, call,
                   diff_before, steps, entry, touched>>
    /\ UNCHANGED ovars

\* The operation returns inside GitCore.commit: the part after the yield.
\* commit_empty, raise_if_empty and commit_message are arguments of the
\* scope that nothing reads before this point.
CommitExit(commit_empty, raise_if_empty, commit_message) ==
    /\ pc = "op" /\ call.commit /\ ~outer.active
    /\ LET staged == StagedIndex(call.commit_only, diff_before, index,
                                 HEADTree, wt, dirs)
           out == ExitOutcome(commit_empty, raise_if_empty, commit_message,
                              staged, HEADTree)
       IN  /\ index' = staged
           /\ outcome' = out
           /\ commits' =
                IF out = "committed"
                THEN Append(commits,
                            [tree |-> staged,
                             message |-> FinalMessage(commit_message, SysArgv),
                             parent |-> HEAD])
                ELSE commits
    /\ call' = [call EXCEPT !.commit_empty = commit_empty,
                  !.raise_if_empty = raise_if_empty,
                  !.commit_message = commit_message]
    /\ pc' = "done"
    /\ UNCHANGED <<outer, wt, ctime, dirs, streams, diff_before, steps, entry,
                   touched>>
    /\ UNCHANGED ovars

\* ------------------------------------------------------------ nested scopes
\* The operation, running inside a commit scope, enters GitCore.commit on
\* the same client: the part before the yield runs again, on the same
\* repository, and the outer scope's locals wait on the stack.
NestedEnter(commit_only) ==
    /\ pc = "op" /\ call.commit /\ ~outer.active /\ ~outer.ran
    /\ ~EntryRaises(commit_only, index, HEADTree, wt)
    /\ outer' = [active |-> TRUE, ran |-> FALSE, call |-> call,
                 diff_before |-> diff_before, entry |-> entry]
    /\ index' = EntryIndex(commit_only, index, HEADTree, wt)
    /\ diff_before' = DiffBefore(commit_only, index, HEADTree, wt, ctime)
    /\ call' = [DefaultCall EXCEPT !.commit_only = commit_only]
    /\ RecordEntry
    /\ UNCHANGED <<commits, wt, ctime, dirs, streams, pc, steps, touched,
                   outcome>>
    /\ UNCHANGED ovars

\* The allow-list loop of the nested scope raises DirtyRenkuDirectory: the
\* exception leaves the operation, and the outer scope with it.
NestedDirty(commit_only) ==
    /\ pc = "op" /\ call.commit /\ ~outer.active /\ ~outer.ran
    /\ EntryRaises(commit_only, index, HEADTree, wt)
    /\ pc' = "done"
    /\ outcome' = "DirtyRenkuDirectory"
    /\ UNCHANGED <<commits, index, wt, ctime, dirs, streams, call,
                   diff_before, steps, entry, touched, outer>>
    /\ UNCHANGED ovars

\* The nested scope's part after the yield.  When it returns, the outer
\* operation goes on with the outer scope's locals; when it raises, the
\* exception leaves the outer scope too.
NestedExit(commit_empty, raise_if_empty, commit_message) ==
    /\ pc = "op" /\ outer.active
    /\ LET staged == StagedIndex(call.commit_only, diff_before, index,
                                 HEADTree, wt, dirs)
           out == ExitOutcome(commit_empty, raise_if_empty, commit_message,
                              staged, HEADTree)
       IN  /\ index' = staged
           /\ commits' =
                IF out = "committed"
                THEN Append(commits,
                            [tree |-> staged,
                             message |-> FinalMessage(commit_message, SysArgv),
                             parent |-> HEAD])
                ELSE commits
           /\ IF out \in {"committed", "returned"}
              THEN /\ pc' = "op"
                   /\ outcome' = outcome
                   /\ call' = outer.call
                   /\ diff_before' = outer.diff_before
                   /\ entry' = outer.entry
                   /\ outer' = [NoFrame EXCEPT !.ran = TRUE]
              ELSE /\ pc' = "done"
                   /\ outcome' = out
                   /\ UNCHANGED <<call, diff_before, entry, outer>>
    /\ UNCHANGED <<wt, ctime, dirs, streams, steps, touched>>
    /\ UNCHANGED ovars

\* The arguments of transaction() are drawn from all their values, except
\* that an argument the call never reads keeps its default:
\* ignore_std_streams without clean, commit_only without commit,
\* raise_if_empty with commit_empty.
Next ==
    \/ \E p \in Paths, c \in Contents, t \in UserTimes : UserWrite(p, c, t)
    \/ \E p \in Paths : UserDelete(p)
    \/ \E p \in Paths : UserAdd(p)
    \/ \E i \in BOOLEAN, c \in BOOLEAN, co \in CommitOnlyValues :
          (c \/ co = CommitAll) /\ TransactionDirty(i, c, co)
    \/ \E cl \in BOOLEAN, i \in BOOLEAN, co \in CommitOnlyValues :
          (i => cl) /\ CommitDirty(cl, i, co)
    \/ \E cl \in BOOLEAN, i \in BOOLEAN, c \in BOOLEAN,
          co \in CommitOnlyValues :
          (i => cl) /\ (c \/ co = CommitAll) /\ TransactionEnter(cl, i, c, co)
    \/ \E p \in Paths, c \in Contents : OpWrite(p, c)
    \/ \E p \in Paths : OpDelete(p)
    \/ OpRaise
    \/ TransactionExit
    \/ \E ce \in BOOLEAN, rie \in BOOLEAN, m \in CommitMessages :
          (rie => ~ce) /\ CommitExit(ce, rie, m)

Spec == Init /\ [][Next]_vars

\* The same program with an operation that may enter one nested scope.
NextNested ==
    \/ Next
    \/ \E co \in CommitOnlyValues : NestedEnter(co)
    \/ \E co \in CommitOnlyValues : NestedDirty(co)
    \/ \E ce \in BOOLEAN, rie \in BOOLEAN, m \in CommitMessages :
          (rie => ~ce) /\ NestedExit(ce, rie, m)

\* The nested runs start without redirected standard streams.
InitNested == Init /\ streams = NoStreams

SpecNested == InitNested /\ [][NextNested]_vars

\* ------------------------------------------------- worktree(): the scope
\* worktree() up to its yield.  path is TRUE when the caller gave a path;
\* redirected is TRUE when a standard stream is redirected to a file of the
\* repository that the new working tree does not hold, which the rerouting
\* then creates there.
EnterWorktree(path, branch_name, commit, merge_args, redirected) ==
    /\ w_args' = [path |-> path, branch_name |-> branch_name,
                  commit |-> commit, merge_args |-> merge_args]
    /\ w_branch' = IF commit = NULL_TREE THEN NoCommit
                   ELSE IF commit = CommitNone THEN w_head
                   ELSE commit.id
    /\ w_new_branch' = (commit # NULL_TREE)
    /\ w_tree' = TRUE
    /\ w_dirty' = redirected
    /\ w_pc' = "inside"
    /\ UNCHANGED <<w_parents, w_head, w_outcome, w_error, w_merges, w_steps>>

\* worktree() called on its own.
WorktreeEnter(path, branch_name, commit, merge_args, redirected) ==
    /\ w_pc = "idle" /\ pc = "idle" /\ steps = 0
    /\ EnterWorktree(path, branch_name, commit, merge_args, redirected)
    /\ UNCHANGED <<gvars, dvars, xvars>>

\* The caller, inside the isolated working tree, commits what is there.
WorkCommit ==
    /\ w_pc = "inside" /\ w_steps < MaxWorkCommits
    /\ w_parents' = w_parents @@
          (NewCommit(w_parents) :>
              IF w_branch = NoCommit THEN {} ELSE {w_branch})
    /\ w_branch' = NewCommit(w_parents)
    /\ w_dirty' = FALSE
    /\ w_steps' = w_steps + 1
    /\ UNCHANGED <<w_pc, w_args, w_head, w_tree, w_new_branch, w_outcome,
                   w_error, w_merges>>
    /\ UNCHANGED <<gvars, dvars, xvars>>

\* The caller writes a file in the isolated working tree.
WorkWrite ==
    /\ w_pc = "inside" /\ ~w_dirty
    /\ w_dirty' = TRUE
    /\ UNCHANGED <<w_pc, w_args, w_parents, w_head, w_branch, w_tree,
                   w_new_branch, w_outcome, w_error, w_merges, w_steps>>
    /\ UNCHANGED <<gvars, dvars, xvars>>

\* WorkRaise as it would be with the merge in a finally clause.
WorkRaise_MergesAnyway ==
    /\ w_pc = "inside"
    /\ LET m == GitMerge(w_parents, w_head, w_branch, w_args.merge_args,
                         FALSE)
       IN  /\ w_parents' = m.parents
           /\ w_head' = m.head
           /\ w_merges' = w_merges + 1
    /\ w_pc' = "done"
    /\ w_outcome' = "OperationError"
    /\ UNCHANGED <<w_args, w_branch, w_tree, w_dirty, w_new_branch, w_error,
                   w_steps>>
    /\ UNCHANGED <<gvars, dvars, xvars>>

\* The caller raises inside the isolated working tree: nothing after the
\* yield runs.
WorkRaise ==
    /\ w_pc = "inside"
    /\ w_pc' = "done"
    /\ w_outcome' = "OperationError"
    /\ UNCHANGED <<w_args, w_parents, w_head, w_branch, w_tree, w_dirty,
                   w_new_branch, w_error, w_merges, w_steps>>
    /\ UNCHANGED <<gvars, dvars, xvars>>

\* The caller returns: worktree() after its yield, the merge and the cleanup.
WorktreeExit(conflict) ==
    /\ w_pc = "inside"
    /\ LET m == GitMerge(w_parents, w_head, w_branch, w_args.merge_args,
                         conflict)
           a == WorktreeAfterMerge(m.ok, ~w_args.path, w_new_branch, w_dirty)
       IN  /\ w_parents' = m.parents
           /\ w_head' = m.head
           /\ w_merges' = w_merges + 1
           /\ w_outcome' = a.outcome
           /\ w_error' = IF a.outcome = "FailedMerge"
                         THEN [repo |-> "repo",
                               branch_name |-> w_args.branch_name,
                               merge_args |-> w_args.merge_args]
                         ELSE w_error
           /\ w_tree' = (w_tree /\ ~a.remove)
           /\ w_branch' = IF a.delete_branch THEN NoCommit ELSE w_branch
    /\ w_pc' = "done"
    /\ UNCHANGED <<w_args, w_dirty, w_new_branch, w_steps>>
    /\ UNCHANGED <<gvars, dvars, xvars>>

NextWorktree ==
    \/ \E path \in BOOLEAN, b \in WorktreeBranchNames,
          c \in WorktreeCommits, m \in WorktreeMergeArgs,
          r \in BOOLEAN : WorktreeEnter(path, b, c, m, r)
    \/ WorkCommit
    \/ WorkWrite
    \/ WorkRaise
    \/ \E conflict \in BOOLEAN : WorktreeExit(conflict)

\* worktree() on a repository with nothing uncommitted.
InitWorktree == Init /\ streams = NoStreams /\ wt = [p \in Paths |-> Absent]

SpecWorktree == InitWorktree /\ [][NextWorktree]_vars

\* ---------------------------------------------------------------- renku init
\* The branch init isolates itself on: 'renku/init/' + str(commit), or
\* 'renku/init/root' when find_previous_commit raises KeyError.
InitBranchName(previous) ==
    IF previous = NoCommit THEN "renku/init/root"
    ELSE "renku/init/" \o ToString(previous)
\* The commit the isolated branch starts at.
InitCommit(previous) ==
    IF previous = NoCommit THEN NULL_TREE ELSE CommitArg(previous)
\* The merge arguments of a forced init.
InitMergeArgsFor(previous) ==
    IF previous = NoCommit
    THEN InitMergeArgs \o <<"--allow-unrelated-histories">>
    ELSE InitMergeArgs

\* The directory is a Git repository with commits: client.repo is not None.
HasRepo == w_head # NoCommit

\* init up to the call of init_repository: with force in a repository it
\* enters worktree() through the exit stack.  previous is the last commit
\* that changed the metadata, NoCommit when there is none.
InitStart(force, previous, redirected) ==
    /\ i_init.pc = "idle" /\ w_pc = "idle" /\ pc = "idle" /\ steps = 0
    /\ (force /\ HasRepo) \/ (previous = NoCommit /\ ~redirected)
    /\ IF force /\ HasRepo
       THEN /\ EnterWorktree(FALSE, InitBranchName(previous),
                             InitCommit(previous),
                             InitMergeArgsFor(previous), redirected)
            /\ i_init' = [pc |-> "entered", force |-> force,
                          previous |-> previous,
                          trace |-> <<"worktree.enter">>,
                          open |-> {"worktree"}, outcome |-> "none"]
       ELSE /\ i_init' = [pc |-> "entered", force |-> force,
                          previous |-> previous, trace |-> <<>>,
                          open |-> {}, outcome |-> "none"]
            /\ UNCHANGED wvars
    /\ UNCHANGED <<gvars, dvars, x_update, evars, c_persisted, v_tag,
                   p_deposition>>

\* The errors init_repository and the lock around it may end in.
InitErrors == {"FileExistsError", "OSError"}

\* init_repository under the lock: when it raises, init raises (UsageError
\* for FileExistsError) and nothing closes the exit stack; otherwise the
\* repository's files are written where the client is.
InitRepositoryStep(error) ==
    /\ i_init.pc = "entered"
    /\ IF error \in InitErrors
       THEN /\ i_init' = [i_init EXCEPT
                   !.pc = "done",
                   !.trace = Append(@, "init_repository.raise"),
                   !.outcome = IF error = "FileExistsError"
                               THEN "UsageError" ELSE error]
            /\ UNCHANGED wvars
       ELSE /\ i_init' = [i_init EXCEPT
                   !.pc = "initialised",
                   !.trace = Append(@, "init_repository")]
            /\ w_dirty' = ("worktree" \in i_init.open)
            /\ UNCHANGED <<w_pc, w_args, w_parents, w_head, w_branch, w_tree,
                           w_new_branch, w_outcome, w_error, w_merges,
                           w_steps>>
    /\ UNCHANGED <<gvars, dvars, x_update, evars, c_persisted, v_tag,
                   p_deposition>>

\* The commit GitCore.commit() makes at its exit, on the branch the client
\* is on: the commit graph with it, and the commit.
CommitOn(parents, tip) ==
    [parents |-> parents @@
                 (NewCommit(parents) :> IF tip = NoCommit THEN {} ELSE {tip}),
     commit |-> NewCommit(parents)]

\* The exit stack unwinding with the merge of worktree() before the commit
\* of commit().
InitUnwind_MergeFirst(parents, head, branch, merge_args, new_branch, conflict) ==
    LET m == GitMerge(parents, head, branch, merge_args, conflict)
        a == WorktreeAfterMerge(m.ok, TRUE, new_branch, TRUE)
        c == CommitOn(m.parents, branch)
    IN  [parents |-> c.parents, head |-> m.head, branch |-> c.commit,
         commit |-> c.commit, tree |-> ~a.remove, outcome |-> a.outcome,
         trace |-> <<"merge", "commit">>]

\* The exit stack unwinding without an exception, the worktree() scope
\* under the commit() scope: commit() commits everything on the isolated
\* branch, then worktree() leaves the isolation, merges the branch and
\* cleans up.
InitUnwind(parents, head, branch, merge_args, new_branch, conflict) ==
    LET c == CommitOn(parents, branch)
        m == GitMerge(c.parents, head, c.commit, merge_args, conflict)
        a == WorktreeAfterMerge(m.ok, TRUE, new_branch, FALSE)
    IN  [parents |-> m.parents, head |-> m.head,
         branch |-> IF a.delete_branch THEN NoCommit ELSE c.commit,
         commit |-> c.commit, tree |-> ~a.remove, outcome |-> a.outcome,
         trace |-> <<"commit", "worktree.exit", "merge">>]

\* The rest of init: commit() is entered on the stack, the hooks are
\* installed and the templates written inside 'with stack', and the stack
\* unwinds.  raises: the hooks or the templates raise (the user declines to
\* override a template).
InitBody(raises, conflict) ==
    /\ i_init.pc = "initialised"
    /\ IF raises
       THEN /\ i_init' = [i_init EXCEPT
                   !.pc = "done",
                   !.trace = @ \o <<"commit.enter", "body.raise",
                                    "commit.exit">> \o
                               (IF "worktree" \in i_init.open
                                THEN <<"worktree.exit">> ELSE <<>>),
                   !.open = {},
                   !.outcome = "Abort"]
            /\ IF "worktree" \in i_init.open
               THEN /\ w_pc' = "done"
                    /\ w_outcome' = "OperationError"
                    /\ UNCHANGED <<w_args, w_parents, w_head, w_branch,
                                   w_tree, w_dirty, w_new_branch, w_error,
                                   w_merges, w_steps>>
               ELSE UNCHANGED wvars
       ELSE IF "worktree" \in i_init.open
       THEN LET u == InitUnwind(w_parents, w_head, w_branch,
                                w_args.merge_args, w_new_branch, conflict)
            IN  /\ i_init' = [i_init EXCEPT
                       !.pc = "done",
                       !.trace = @ \o <<"commit.enter", "body">> \o u.trace,
                       !.open = {},
                       !.outcome = u.outcome]
                /\ w_parents' = u.parents
                /\ w_head' = u.head
                /\ w_branch' = u.branch
                /\ w_tree' = u.tree
                /\ w_dirty' = FALSE
                /\ w_merges' = w_merges + 1
                /\ w_steps' = w_steps + 1
                /\ w_outcome' = u.outcome
                /\ w_error' = IF u.outcome = "FailedMerge"
                              THEN [repo |-> "repo",
                                    branch_name |-> w_args.branch_name,
                                    merge_args |-> w_args.merge_args]
                              ELSE w_error
                /\ w_pc' = "done"
                /\ UNCHANGED <<w_args, w_new_branch>>
       ELSE LET c == CommitOn(w_parents, w_head)
            IN  /\ ~conflict
                /\ i_init' = [i_init EXCEPT
                       !.pc = "done",
                       !.trace = @ \o <<"commit.enter", "body", "commit">>,
                       !.outcome = "returned"]
                /\ w_parents' = c.parents
                /\ w_head' = c.commit
                /\ UNCHANGED <<w_pc, w_args, w_branch, w_tree, w_dirty,
                               w_new_branch, w_outcome, w_error, w_merges,
                               w_steps>>
    /\ UNCHANGED <<gvars, dvars, x_update, evars, c_persisted, v_tag,
                   p_deposition>>

\* After init raised with the stack still open, the interpreter may at
\* some later time finalise the suspended generator of worktree(): the
\* GeneratorExit raised at its yield leaves the isolation, and nothing
\* after the yield runs.
InitFinalize ==
    /\ i_init.pc = "done" /\ "worktree" \in i_init.open
    /\ i_init' = [i_init EXCEPT !.trace = Append(@, "worktree.finalize"),
                                !.open = {}]
    /\ w_pc' = "done"
    /\ w_outcome' = "GeneratorExit"
    /\ UNCHANGED <<w_args, w_parents, w_head, w_branch, w_tree, w_dirty,
                   w_new_branch, w_error, w_merges, w_steps>>
    /\ UNCHANGED <<gvars, dvars, x_update, evars, c_persisted, v_tag,
                   p_deposition>>

NextInit ==
    \/ \E force, redirected \in BOOLEAN,
          previous \in {NoCommit, FirstCommit, SecondCommit} :
          InitStart(force, previous, redirected)
    \/ \E error \in InitErrors \cup {""} : InitRepositoryStep(error)
    \/ \E raises, conflict \in BOOLEAN : InitBody(raises, conflict)
    \/ InitFinalize

\* init is called in a repository that has commits.
InitInit == Init

SpecInit == InitInit /\ [][NextInit]_vars

\* ---------------------------------------------------------- dataset commands
\* The time of the running command.
Now == d_ops + 1

\* A command may start.
CommandStart ==
    /\ d_pc = "idle" /\ d_ops < MaxDatasetOps
    /\ pc = "idle" /\ steps = 0 /\ w_pc = "idle"

\* The end of a command under pass_local_client(commit=True): the metadata
\* and references it leaves, and the commit of them.
CommandEnd(cmd, name, args, error, meta, refs, commit_empty, raise_if_empty) ==
    LET changed == meta # d_meta \/ refs # d_refs
    IN  /\ d_meta' = meta
        /\ d_refs' = refs
        /\ d_head' = IF CommandCommits(error, changed, commit_empty)
                     THEN d_head + 1 ELSE d_head
        /\ d_last' = [cmd |-> cmd, name |-> name, args |-> args,
                      outcome |-> CommandOutcome(error, changed, commit_empty,
                                                 raise_if_empty)]
        /\ d_pc' = "idle"
        /\ d_unlink' = NoUnlink
        /\ UNCHANGED <<gvars, wvars>>

\* The state a command starts from is remembered.
CommandBegin ==
    /\ d_prev' = [meta |-> d_meta, refs |-> d_refs, head |-> d_head]
    /\ d_ops' = d_ops + 1

\* renku dataset create
DatasetCreate(name, short_name) ==
    /\ CommandStart
    /\ CommandBegin
    /\ LET r == ClientCreateDataset(d_meta, d_refs, name, short_name)
       IN  CommandEnd("create", name,
                      [short_name |-> short_name], r.error, r.meta, r.refs,
                      TRUE, FALSE)
    /\ UNCHANGED <<d_listing, xvars>>

\* renku dataset add
DatasetAdd(urls, short_name, force, create, srcdst) ==
    /\ CommandStart
    /\ CommandBegin
    /\ LET r == AddToDataset(d_meta, d_refs, urls, short_name, force, create,
                             srcdst, NoMetadata, Now)
       IN  CommandEnd("add", short_name,
                      [urls |-> urls, create |-> create],
                      r.error, r.meta, r.refs, FALSE, TRUE)
    /\ UNCHANGED <<d_listing, xvars>>

\* What a URI given to import leads to: no provider accepts it, the
\* provider's request is not answered with 200 (LookupError), the record
\* lacks a field that is read (KeyError), or the record is found.
ImportUris == {"unsupported", "not found", "no field", "found"}
\* with_prompt and the user's answer: no prompt, confirmed, declined.
ImportPrompts == {"none", "yes", "no"}

\* ImportLookup with a declined prompt going on.
ImportLookup_IgnoresDecline(uri, prompt) ==
    IF uri = "found" THEN "" ELSE "ParameterError"

\* import_dataset up to the files being added: what it raises.
ImportLookup(uri, prompt) ==
    IF uri = "unsupported" THEN "ParameterError"
    ELSE IF uri = "no field" THEN "ParameterError"
    ELSE IF uri = "not found" THEN "ParameterError"
    ELSE IF prompt = "no" THEN "Abort"
    ELSE ""

\* renku dataset import of a dataset with the given name, version and files.
\* The versions of ImportedVersions are made of characters ImportTagName
\* keeps, so each is its own tag name.
DatasetImport(uri, prompt, name, version, files, short_name) ==
    /\ CommandStart
    /\ CommandBegin
    /\ LET lookup == ImportLookup(uri, prompt)
           short == IF short_name = NoShortName
                    THEN DefaultShortName(name, version) ELSE short_name
           a == AddToDataset(d_meta, d_refs, files, short, TRUE, TRUE, FALSE,
                             [name |-> name, version |-> version], Now)
           t == TagDataset(a.meta, a.refs, short, version, FALSE, d_head, Now)
           args == [version |-> version, files |-> files, uri |-> uri,
                    prompt |-> prompt]
       IN  IF lookup # ""
           THEN CommandEnd("import", short, args, lookup, d_meta, d_refs,
                           TRUE, FALSE)
           ELSE IF files = <<>>
           THEN CommandEnd("import", short, args, "", d_meta, d_refs,
                           TRUE, FALSE)
           ELSE IF a.error # "" \/ version = NoVersion
           THEN CommandEnd("import", short, args, a.error, a.meta, a.refs,
                           TRUE, FALSE)
           ELSE CommandEnd("import", short, args, t.error, t.meta, a.refs,
                           TRUE, FALSE)
    /\ UNCHANGED <<d_listing, xvars>>

\* renku dataset rm
DatasetRm(names) ==
    /\ CommandStart
    /\ CommandBegin
    /\ LET r == DatasetRemove(d_meta, d_refs, names)
       IN  CommandEnd("rm", "", [names |-> names], r.error, r.meta, r.refs,
                      TRUE, FALSE)
    /\ UNCHANGED <<d_listing, xvars>>

\* renku dataset tag
DatasetTag(name, tag, force) ==
    /\ CommandStart
    /\ CommandBegin
    /\ LET r == TagDataset(d_meta, d_refs, name, tag, force, d_head, Now)
       IN  CommandEnd("tag", name, [tag |-> tag, force |-> force],
                      r.error, r.meta, d_refs, TRUE, FALSE)
    /\ UNCHANGED <<d_listing, xvars>>

\* renku dataset rm-tags
DatasetRmTags(name, tags) ==
    /\ CommandStart
    /\ CommandBegin
    /\ LET r == RemoveDatasetTags(d_meta, d_refs, name, tags)
       IN  CommandEnd("rm-tags", name, [tags |-> tags],
                      r.error, r.meta, d_refs, TRUE, FALSE)
    /\ UNCHANGED <<d_listing, xvars>>

\* renku dataset ls-tags: no commit is made.
DatasetLsTags(name) ==
    /\ CommandStart
    /\ CommandBegin
    /\ LET r == ListTags(d_meta, d_refs, name)
       IN  /\ d_listing' = r.tags
           /\ d_last' = [cmd |-> "ls-tags", name |-> name, args |-> <<>>,
                         outcome |-> IF r.error # "" THEN r.error
                                     ELSE "returned"]
    /\ UNCHANGED <<d_meta, d_refs, d_head, d_pc, d_unlink>>
    /\ UNCHANGED <<gvars, wvars, xvars>>

\* renku dataset unlink up to the confirmation.
FileUnlinkEnter(name, include, exclude) ==
    /\ CommandStart
    /\ CommandBegin
    /\ LET r == FileUnlinkRecords(d_meta, d_refs, name, include, exclude)
           args == [include |-> include, exclude |-> exclude]
       IN  IF r.error # ""
           THEN CommandEnd("unlink", name, args, r.error, d_meta, d_refs,
                           TRUE, FALSE)
           ELSE /\ d_pc' = "confirm"
                /\ d_unlink' = [dataset |-> r.dataset, records |-> r.records]
                /\ d_last' = [cmd |-> "unlink", name |-> name, args |-> args,
                              outcome |-> "confirm"]
                /\ UNCHANGED <<d_meta, d_refs, d_head>>
                /\ UNCHANGED <<gvars, wvars>>
    /\ UNCHANGED <<d_listing, xvars>>

\* The caller confirms: file_unlink after its yield.
FileUnlinkConfirm ==
    /\ d_pc = "confirm"
    /\ CommandEnd("unlink", d_last.name, d_last.args, "",
                  UnlinkFiles(d_meta, d_unlink.dataset, d_unlink.records),
                  d_refs, TRUE, FALSE)
    /\ UNCHANGED <<d_prev, d_ops, d_listing, xvars>>

\* The caller declines: Abort is raised at the yield.
FileUnlinkAbort ==
    /\ d_pc = "confirm"
    /\ CommandEnd("unlink", d_last.name, d_last.args, "Abort",
                  d_meta, d_refs, TRUE, FALSE)
    /\ UNCHANGED <<d_prev, d_ops, d_listing, xvars>>

\* The arguments the commands are run with.
Urls == {<<>>, <<"f1">>, <<"f2">>, <<"f1", "f2">>, <<MissingPath>>}
ImportedNames == {"a"}
ImportedVersions == {NoVersion, "1.0"}
ImportedFiles == {<<>>, <<"f1">>}

NextDatasets ==
    \/ \E n \in DatasetNames, s \in ShortNames \cup {NoShortName} :
          DatasetCreate(n, s)
    \/ \E u \in Urls, s \in ShortNames, f \in BOOLEAN, c \in BOOLEAN,
          sd \in BOOLEAN : DatasetAdd(u, s, f, c, sd)
    \/ \E uri \in ImportUris, prompt \in ImportPrompts,
          n \in ImportedNames, v \in ImportedVersions, f \in ImportedFiles,
          s \in ShortNames \cup {NoShortName} :
          \* No record is read when the lookup fails, and no prompt shown.
          /\ uri # "found" => (v = NoVersion /\ f = <<>> /\ prompt = "none")
          /\ DatasetImport(uri, prompt, n, v, f, s)
    \/ \E names \in SUBSET ShortNames : DatasetRm(names)

\* The dataset commands in a repository with nothing uncommitted.
InitDatasets == Init /\ streams = NoStreams /\ wt = [p \in Paths |-> Absent]

SpecDatasets == InitDatasets /\ [][NextDatasets]_vars

\* The commands that build datasets with files, and unlink.
NextUnlink ==
    \/ \E n \in DatasetNames, s \in ShortNames \cup {NoShortName} :
          DatasetCreate(n, s)
    \/ \E u \in Urls, s \in ShortNames, c \in BOOLEAN :
          DatasetAdd(u, s, FALSE, c, FALSE)
    \/ \E n \in ShortNames, i \in SUBSET Patterns, e \in SUBSET Patterns :
          FileUnlinkEnter(n, i, e)
    \/ FileUnlinkConfirm
    \/ FileUnlinkAbort

SpecUnlink == InitDatasets /\ [][NextUnlink]_vars

\* renku dataset ls-files: no commit is made.  It may follow the last of
\* the commands that change the datasets.
DatasetLsFiles(names, creators, include, exclude) ==
    /\ d_pc = "idle" /\ d_ops <= MaxDatasetOps
    /\ pc = "idle" /\ steps = 0 /\ w_pc = "idle"
    /\ CommandBegin
    /\ d_listing' = Filter(d_meta, names, creators, include, exclude)
    /\ d_last' = [cmd |-> "ls-files", name |-> "",
                  args |-> [names |-> names, creators |-> creators,
                            include |-> include, exclude |-> exclude],
                  outcome |-> "returned"]
    /\ UNCHANGED <<d_meta, d_refs, d_head, d_pc, d_unlink>>
    /\ UNCHANGED <<gvars, wvars, xvars>>

\* The commands that build datasets with files, and ls-files.
NextLsFiles ==
    \/ \E n \in DatasetNames, s \in ShortNames \cup {NoShortName} :
          DatasetCreate(n, s)
    \/ \E u \in Urls, s \in ShortNames, c \in BOOLEAN :
          DatasetAdd(u, s, FALSE, c, FALSE)
    \/ \E names \in {{}, {"a"}, {"a", "b"}}, i \in SUBSET Patterns,
          e \in SUBSET Patterns : DatasetLsFiles(names, {}, i, e)

SpecLsFiles == InitDatasets /\ [][NextLsFiles]_vars

\* A project in which 'renku dataset create a' has run.
OneDataset ==
    /\ d_meta = <<[name |-> "a", short_name |-> "a", files |-> <<>>,
                   tags |-> <<>>]>>
    /\ d_refs = ("a" :> 1)
    /\ d_head = 2
    /\ d_ops = 0
    /\ d_pc = "idle"
    /\ d_unlink = NoUnlink
    /\ d_last = NoCommand
    /\ d_prev = [meta |-> d_meta, refs |-> d_refs, head |-> d_head]
    /\ d_listing = <<>>

\* The commands that tag, untag and list the tags of datasets.
NextTags ==
    \/ \E n \in DatasetNames, s \in ShortNames \cup {NoShortName} :
          DatasetCreate(n, s)
    \/ \E n \in ShortNames, t \in TagNames, f \in BOOLEAN :
          DatasetTag(n, t, f)
    \/ \E n \in ShortNames, t \in SUBSET TagNames : DatasetRmTags(n, t)
    \/ \E n \in ShortNames : DatasetLsTags(n)

InitTags ==
    /\ InitRepository /\ streams = NoStreams /\ wt = [p \in Paths |-> Absent]
    /\ OneDataset
    /\ OutputIdle

SpecTags == InitTags /\ [][NextTags]_vars

\* renku dataset update.  gone and newer are the files whose upstream is
\* gone, or has changed, at the target.
DatasetUpdate(names, include, exclude, ref, delete, gone, newer) ==
    /\ CommandStart
    /\ d_ops < MaxUpdates
    /\ CommandBegin
    /\ LET records == Filter(d_meta, names, {}, include, exclude)
           error == UpdateError(records, ref)
           u == UpdateDatasetFiles(d_meta, PossibleUpdates(records), delete,
                                   gone, newer)
           args == [names |-> names, include |-> include,
                    exclude |-> exclude, ref |-> ref, delete |-> delete,
                    gone |-> gone]
       IN  IF error # ""
           THEN /\ CommandEnd("update", "", args, error, d_meta, d_refs,
                              FALSE, FALSE)
                /\ x_update' = NoUpdate
           ELSE /\ CommandEnd("update", "", args, "", u.meta, d_refs,
                              FALSE, FALSE)
                /\ x_update' = [removed |-> u.removed,
                                echo |-> UpdateEcho(u.deleted_files, delete)]
    /\ UNCHANGED <<d_listing, evars, c_persisted, v_tag, i_init,
                   p_deposition>>

\* A project whose dataset a holds f1 from one repository and f2 from the
\* same one, from another one or from none, and which may have a dataset b
\* with a file from the other repository.
FromGit(path, url) ==
    [path |-> path, added |-> 0, based_on |-> [url |-> url, label |-> 1]]

UpdateProject(f2, two) ==
    /\ d_meta =
          << [name |-> "a", short_name |-> "a", tags |-> <<>>,
              files |-> << FromGit("f1", "R1"),
                           IF f2 = "" THEN [path |-> "f2", added |-> 0,
                                            based_on |-> NoBasedOn]
                           ELSE FromGit("f2", f2) >>] >>
          \o IF two THEN << [name |-> "b", short_name |-> "b",
                             tags |-> <<>>,
                             files |-> << FromGit("f1", "R2") >>] >>
             ELSE <<>>
    /\ d_refs = IF two THEN ("a" :> 1) @@ ("b" :> 2) ELSE ("a" :> 1)
    /\ d_head = IF two THEN 5 ELSE 3
    /\ d_ops = 0
    /\ d_pc = "idle"
    /\ d_unlink = NoUnlink
    /\ d_last = NoCommand
    /\ d_prev = [meta |-> d_meta, refs |-> d_refs, head |-> d_head]
    /\ d_listing = <<>>

\* The files whose upstream may be gone, and the one whose upstream may change.
GoneKeys == {<<1, "f1">>, <<1, "f2">>, <<2, "f1">>}
NewerKeys == {<<1, "f1">>}

NextUpdate ==
    \E names \in {{}, {"a"}, {"b"}}, ref \in BOOLEAN, delete \in BOOLEAN,
       gone \in {{}, {<<1, "f1">>, <<1, "f2">>}} \cup {{k} : k \in GoneKeys},
       newer \in SUBSET NewerKeys :
          DatasetUpdate(names, {}, {}, ref, delete, gone, newer)

InitUpdate ==
    /\ InitRepository /\ streams = NoStreams /\ wt = [p \in Paths |-> Absent]
    /\ \E f2 \in Remotes \cup {""}, two \in BOOLEAN : UpdateProject(f2, two)
    /\ OutputIdle

SpecUpdate == InitUpdate /\ [][NextUpdate]_vars

\* renku dataset export.  entered is what the token callback returns,
\* tag_result the tag the selection callback returns (0 for none), server
\* how the provider answers.
DatasetExport(id, provider_id, publish, tag, entered, tag_result, server) ==
    /\ CommandStart
    /\ d_ops < MaxExports
    /\ CommandBegin
    /\ LET r == ExportDataset(d_meta, d_refs, d_head, x_history, x_token, id,
                              provider_id, publish, tag, entered, tag_result,
                              server)
           args == [provider |-> provider_id, publish |-> publish,
                    tag |-> tag, entered |-> entered,
                    tag_result |-> tag_result, server |-> server,
                    stored |-> IF provider_id \in Providers
                               THEN x_token[provider_id] ELSE NoToken]
       IN  /\ CommandEnd("export", id, args, r.error, d_meta, d_refs,
                         TRUE, FALSE)
           /\ x_token' = r.token
           /\ x_http' = r.http
           /\ x_export' = r.export
           /\ x_history' = IF CommandCommits(r.error, FALSE, TRUE)
                           THEN Append(x_history, d_meta) ELSE x_history
    /\ UNCHANGED <<d_listing, x_update, c_persisted, v_tag, i_init,
                   p_deposition>>

\* A project with a dataset a: created, f1 added, tagged 1.0, f2 added and,
\* in one of the projects, tagged 2.0.
ExportProject(two) ==
    LET file(path, now) == [path |-> path, added |-> now]
        tag(name, commit, now) ==
            [name |-> name, commit |-> commit, created |-> now]
        a(files, tags) == << [name |-> "a", short_name |-> "a",
                              files |-> files, tags |-> tags] >>
        f1 == << file("f1", 2) >>
        f12 == << file("f1", 2), file("f2", 4) >>
        t1 == << tag("1.0", 2, 3) >>
        t12 == << tag("1.0", 2, 3), tag("2.0", 4, 5) >>
        history == << a(<<>>, <<>>), a(f1, <<>>), a(f1, t1), a(f12, t1) >>
                   \o IF two THEN << a(f12, t12) >> ELSE <<>>
    IN  /\ x_history = history
        /\ d_meta = history[Len(history)]
        /\ d_refs = ("a" :> 1)
        /\ d_head = Len(history)
        /\ d_ops = 0
        /\ d_pc = "idle"
        /\ d_unlink = NoUnlink
        /\ d_last = NoCommand
        /\ d_prev = [meta |-> d_meta, refs |-> d_refs, head |-> d_head]
        /\ d_listing = <<>>
        /\ x_update = NoUpdate
        /\ x_token = [p \in Providers |-> NoToken]
        /\ x_http = <<>>
        /\ x_export = NoExport
        /\ c_persisted = {}
        /\ v_tag = NoImportTag
        /\ i_init = NoInit
        /\ p_deposition = NoDeposition
    /\ p_deposition = NoDeposition

\* The server of an export that sends nothing.
UnusedServer == CHOOSE server \in Servers : server.create = HTTP_CREATED

\* The token callback is asked only when no token is stored, and the
\* selection callback only when no tag is named; for an unknown provider
\* and for a refused token, which end the export before anything is sent,
\* one server stands for all.
NextExport ==
    \E provider_id \in Providers \cup {UnknownProvider},
       publish \in BOOLEAN, tag \in {NoTag, "1.0", "9.9"},
       entered \in {NoCallback, NoToken, EmptyToken} \cup Tokens,
       tag_result \in 0..1,
       server \in Servers :
          /\ tag # NoTag => tag_result = 0
          /\ (provider_id \in Providers /\ x_token[provider_id] # NoToken)
                => entered = NoToken
          /\ provider_id = UnknownProvider
                => (entered = NoToken /\ tag = NoTag /\ tag_result = 0)
          /\ (\/ provider_id = UnknownProvider
              \/ /\ x_token[provider_id] = NoToken
                 /\ InvalidToken(CallbackToken(entered)))
                => (server = UnusedServer /\ ~publish)
          /\ DatasetExport("a", provider_id, publish, tag, entered,
                           tag_result, server)

InitExport ==
    /\ InitRepository /\ streams = NoStreams /\ wt = [p \in Paths |-> Absent]
    /\ \E two \in BOOLEAN : ExportProject(two)

SpecExport == InitExport /\ [][NextExport]_vars

\* ------------------------------------------------ URLs that are persisted
\* How many URLs and command lines are given.
MaxPersisted == 3

\* The URLs given: with and without credentials.
GivenUrls ==
    {<<scheme>> \o cred \o <<host>> :
        scheme \in {"https://", "http://"}, cred \in {<<>>, <<CRED>>},
        host \in {"example.com/index.html", "host/x"}}

\* The command lines: sys.argv with a URL as its last argument.
CommandLines ==
    {<< <<"/usr/bin/", "renku">>, <<"dataset">>, <<"add">>, url >> :
        url \in GivenUrls}

\* client._add_from_url: the url of the file it returns.
AddFromUrl(url) == RemoveCredentials(url)

\* import_dataset storing the URL of the record as it is.
ImportedUrl_AsGiven(url) == url

\* import_dataset: dataset.url = remove_credentials(dataset.url)
ImportedUrl(url) == RemoveCredentials(url)

Persist(site, given, stored) ==
    /\ Cardinality(c_persisted) < MaxPersisted
    /\ c_persisted' = c_persisted \cup
          {[site |-> site, given |-> given, stored |-> stored]}
    /\ UNCHANGED <<gvars, wvars, dvars, x_update, evars, v_tag, i_init,
                   p_deposition>>

\* renku dataset add with a remote URL.
PersistFileUrl(url) == Persist("file", url, AddFromUrl(url))

\* renku dataset import: the URL of the dataset.
PersistDatasetUrl(url) == Persist("dataset", url, ImportedUrl(url))

\* A commit whose message comes from the command line.
PersistMessage(argv) == Persist("message", Join(argv), ArgvMessage(argv))

NextCredentials ==
    \/ \E url \in GivenUrls : PersistFileUrl(url)
    \/ \E url \in GivenUrls : PersistDatasetUrl(url)
    \/ \E argv \in CommandLines : PersistMessage(argv)

InitCredentials ==
    Init /\ streams = NoStreams /\ wt = [p \in Paths |-> Absent]

SpecCredentials == InitCredentials /\ [][NextCredentials]_vars

\* -------------------------------------------- the calls on a deposition
\* How many calls are made on one deposition.
MaxCalls == 3

\* deposition.create_dataset(...) on the deposition: the identifier is
\* assigned after the status check only.
CreateDataset(server) ==
    /\ Len(p_deposition.log) < MaxCalls
    /\ LET r == DepositionCreate(server)
       IN  p_deposition' = [p_deposition EXCEPT
               !.dataset_pid = IF r.error = "" THEN r.dataset_pid ELSE @,
               !.log = Append(@, [method |-> "create", http |-> r.http,
                                  error |-> r.error])]
    /\ UNCHANGED <<gvars, wvars, dvars, x_update, evars, c_persisted, v_tag,
                   i_init>>

\* deposition.upload_file(filepath) on the deposition.
UploadFile(file_, server) ==
    /\ Len(p_deposition.log) < MaxCalls
    /\ LET r == DepositionUpload(p_deposition.dataset_pid, file_, server)
       IN  p_deposition' = [p_deposition EXCEPT
               !.log = Append(@, [method |-> "upload", http |-> r.http,
                                  error |-> r.error])]
    /\ UNCHANGED <<gvars, wvars, dvars, x_update, evars, c_persisted, v_tag,
                   i_init>>

\* deposition.publish_dataset() on the deposition.
PublishDataset(server) ==
    /\ Len(p_deposition.log) < MaxCalls
    /\ LET r == DepositionPublish(p_deposition.dataset_pid, server)
       IN  p_deposition' = [p_deposition EXCEPT
               !.log = Append(@, [method |-> "publish", http |-> r.http,
                                  error |-> r.error])]
    /\ UNCHANGED <<gvars, wvars, dvars, x_update, evars, c_persisted, v_tag,
                   i_init>>

\* The files of the dataset that is exported.
ExportedFiles == {<<>>, <<"f1">>, <<"f1", "f2">>}

\* DataverseExporter.export on a deposition of its own.
ExporterRun(files, publish, server) ==
    /\ p_deposition.export.error = "none"
    /\ LET r == DataverseExport(files, publish, server)
       IN  p_deposition' = [p_deposition EXCEPT
               !.export = [files |-> files, publish |-> publish,
                           http |-> r.http, error |-> r.error]]
    /\ UNCHANGED <<gvars, wvars, dvars, x_update, evars, c_persisted, v_tag,
                   i_init>>

NextDeposition ==
    \/ \E server \in Servers : CreateDataset(server)
    \/ \E file_ \in Files, server \in Servers : UploadFile(file_, server)
    \/ \E server \in Servers : PublishDataset(server)
    \/ \E files \in ExportedFiles, publish \in BOOLEAN, server \in Servers :
          ExporterRun(files, publish, server)

InitDeposition ==
    Init /\ streams = NoStreams /\ wt = [p \in Paths |-> Absent]

SpecDeposition == InitDeposition /\ [][NextDeposition]_vars

\* ---------------------------------------------- import: tagging the version
\* import_dataset after the files were added: the version is made a tag name
\* and the dataset is tagged with it.
ImportTag ==
    /\ v_tag.outcome = "imported"
    /\ LET tag_name == ImportTagName(v_tag.version)
       IN  v_tag' = [version |-> v_tag.version, tag_name |-> tag_name,
                     outcome |-> IF ValidTagName(tag_name) THEN "tagged"
                                 ELSE "ValueError"]
    /\ UNCHANGED <<gvars, wvars, dvars, x_update, evars, c_persisted, i_init,
                   p_deposition>>

NextImportTag == ImportTag

\* The files of a record with a version were added.
InitImportTag ==
    /\ InitRepository /\ streams = NoStreams /\ wt = [p \in Paths |-> Absent]
    /\ DatasetIdle
    /\ x_update = NoUpdate
    /\ x_token = [p \in Providers |-> NoToken]
    /\ x_http = <<>>
    /\ x_export = NoExport
    /\ x_history = <<>>
    /\ c_persisted = {}
    /\ i_init = NoInit
    /\ p_deposition = NoDeposition
    /\ \E version \in Versions :
          v_tag = [version |-> version, tag_name |-> <<>>,
                   outcome |-> "imported"]

SpecImportTag == InitImportTag /\ [][NextImportTag]_vars

\* ------------------------------------------------- add_file in its commit scope
\* The arguments add_file's decorator gives GitCore.transaction.
AddFileCall ==
    [DefaultCall EXCEPT !.clean = FALSE, !.commit = TRUE,
                        !.commit_only = COMMIT_DIFF_STRATEGY]

\* add_file inside its commit scope: add_to_dataset raises UsageError for
\* its arguments, which ends the scope without a commit.
AddFileUsageError(urls, short_name, srcdst) ==
    /\ pc = "op" /\ steps = 0 /\ outer = NoFrame
    /\ call = AddFileCall
    /\ d_pc = "idle"
    /\ LET r == AddToDataset(d_meta, d_refs, urls, short_name, FALSE, FALSE,
                             srcdst, NoMetadata, Now)
       IN  /\ r.error = "UsageError"
           /\ d_meta' = r.meta
           /\ d_refs' = r.refs
           /\ d_last' = [cmd |-> "add", name |-> short_name,
                         args |-> [urls |-> urls, create |-> FALSE],
                         outcome |-> r.error]
    /\ pc' = "done"
    /\ outcome' = "UsageError"
    /\ UNCHANGED <<outer, commits, index, wt, ctime, dirs, streams, call,
                   diff_before, steps, entry, touched>>
    /\ UNCHANGED <<d_head, d_ops, d_pc, d_unlink, d_prev, d_listing>>
    /\ UNCHANGED <<wvars, xvars>>

NextAddFile ==
    \/ Next
    \/ \E u \in Urls, s \in ShortNames, sd \in BOOLEAN :
          AddFileUsageError(u, s, sd)

SpecAddFile == Init /\ [][NextAddFile]_vars

\* ================================================================== claims
\* The commit at HEAD and its parent's tree.
HeadCommit == commits[HEAD]
ParentTree == commits[HeadCommit.parent].tree
\* The scope ran to its end.
Done == pc = "done"
\* The paths whose working-tree content the operation changed.
Changed == {p \in Paths : wt[p] # entry.wt[p]}
\* A message that is absent or a string.
ValidMessage(m) == m.type = "str" \/ m = PyNone

\* A commit scope whose operation returned has ended.
Exited == Done /\ call.commit /\ outcome \in
    {"committed", "returned", "NothingToCommit", "CommitMessageEmpty"}

\* C1 as stated: a commit scope with commit_empty at its default (and a
\* commit message that is absent or a string) whose operation returns ends
\* with HEAD exactly one commit past the HEAD at entry, and that commit
\* holds every change the operation made.
C1_AsStated ==
    (Exited /\ call.commit_empty /\ ValidMessage(call.commit_message)) =>
        /\ HEAD = entry.head + 1
        /\ HeadCommit.parent = entry.head
        /\ \A p \in Changed : HeadCommit.tree[p] = wt[p]

\* The changes of the operation that the scope's strategy selects: all of
\* them when everything is committed, those at or under an allow-list path
\* that exists at exit, and under the diff strategy those to paths outside
\* the snapshot taken at entry.
SelectedChanges ==
    {p \in Changed :
        \/ call.commit_only = CommitAll
        \/ /\ call.commit_only.kind = "list"
           /\ \E path_ \in call.commit_only.paths :
                 AtOrUnder(p, path_) /\ PathExists(wt, dirs, path_)
        \/ call.commit_only = COMMIT_DIFF_STRATEGY /\ p \notin diff_before}

\* C1 amended: with commit_empty at its default and a commit message that
\* is absent or a string, a scope whose operation returns ends with HEAD
\* exactly one commit past the HEAD at entry, that commit's parent is the
\* HEAD at entry, and it holds every change of the operation that the
\* scope's strategy selects.
C1_OneCommit ==
    (Exited /\ call.commit_empty /\ ValidMessage(call.commit_message)) =>
        /\ outcome = "committed"
        /\ HEAD = entry.head + 1
        /\ HeadCommit.parent = entry.head
        /\ \A p \in SelectedChanges : HeadCommit.tree[p] = wt[p]

\* C1 witness: a scope ended with one new commit on top of the HEAD at
\* entry, and the commit holds a file the operation wrote.
C1_Witness ==
    /\ Exited /\ outcome = "committed" /\ call.commit_empty
    /\ HEAD = entry.head + 1 /\ HeadCommit.parent = entry.head
    /\ \E p \in touched :
          /\ wt[p] # entry.wt[p]
          /\ HeadCommit.tree[p] = wt[p]
          /\ ParentTree[p] # wt[p]

\* C2: when the wrapped operation raises inside a commit scope, no commit
\* is created: HEAD and the history are those of scope entry.
C2_RaiseNoCommit ==
    (Done /\ call.commit /\ outcome = "OperationError") =>
        /\ HEAD = entry.head
        /\ \A i \in 1..HEAD : commits[i].parent = i - 1

\* C2 witness: the operation changed the working tree and then raised
\* inside a commit scope.
C2_Witness ==
    /\ Done /\ call.commit /\ outcome = "OperationError"
    /\ Changed # {}
    /\ HEAD = entry.head

\* The scope ran under the diff strategy and committed.
DiffCommitted ==
    Exited /\ call.commit_only = COMMIT_DIFF_STRATEGY /\ outcome = "committed"
\* The files the operation created.
Created == {f \in Paths : entry.wt[f] = Absent /\ wt[f] # Absent}
\* The files that were untracked at scope entry and that the operation did
\* not touch.
UntouchedUntracked == Untracked(entry.index, entry.wt) \ touched

DiffSelected == {p \in Paths \ diff_before : wt[p] # ParentTree[p]}

ModifiedAtEntry(p) ==
    /\ commits[entry.head].tree[p] # Absent
    /\ \/ entry.index[p] # commits[entry.head].tree[p]
       \/ entry.wt[p] # commits[entry.head].tree[p]

\* C4 as stated: under the diff strategy a tracked file that was modified
\* before the operation and that the operation does not touch is not part
\* of the commit (checked where the operation created a file and the
\* modified file is no redirected standard stream).
C4_AsStated ==
    (DiffCommitted /\ Created # {}) =>
        \A p \in Paths \ touched :
            (ModifiedAtEntry(p) /\ \A s \in StreamNames : streams[s] # p) =>
                HeadCommit.tree[p] = ParentTree[p]

\* The tree of the HEAD at scope entry.
EntryTree == commits[entry.head].tree
\* The path was untracked, staged or modified at scope entry.
UncommittedAtEntry(p) ==
    \/ p \in Untracked(entry.index, entry.wt)
    \/ entry.index[p] # EntryTree[p]
    \/ entry.index[p] # Absent /\ entry.wt[p] # entry.index[p]
\* transaction() got past ensure_clean into a commit scope with an
\* allow-list.
ListScope ==
    /\ pc # "idle" /\ call.commit /\ call.commit_only.kind = "list"
    /\ outcome # "DirtyRepository"
\* The path is at or under a path of the allow-list.
Listed(p) == \E path_ \in call.commit_only.paths : AtOrUnder(p, path_)

\* C5 as stated: with an allow-list, if any file at or under a listed path
\* is untracked, staged or modified at entry, the scope raises
\* DirtyRenkuDirectory, the operation never runs and no commit is made.
C5_AsStated ==
    (ListScope /\ \E p \in Paths : Listed(p) /\ UncommittedAtEntry(p)) =>
        /\ outcome = "DirtyRenkuDirectory"
        /\ touched = {}
        /\ HEAD = entry.head

\* C6 as stated: with an allow-list, uncommitted changes outside the
\* listed paths do not block the operation, the commit changes only listed
\* paths, and a file outside them that the operation left alone is in the
\* uncommitted state it was in at entry.
C6_AsStated ==
    ListScope =>
        /\ outcome = "DirtyRenkuDirectory" =>
              \E p \in Paths : Listed(p) /\ UncommittedAtEntry(p)
        /\ outcome = "committed" =>
              \A p \in Paths : ~Listed(p) =>
                  /\ HeadCommit.tree[p] = ParentTree[p]
                  /\ p \notin touched =>
                        index[p] = entry.index[p] /\ wt[p] = entry.wt[p]

\* The file a standard stream is redirected to.
IsStdStream(p) == \E s \in StreamNames : streams[s] = p

\* C7 as stated: transaction(clean=True) raises DirtyRepository whenever
\* the working tree has an uncommitted change at entry; with
\* ignore_std_streams only changes to standard-stream files are tolerated.
C7_AsStated ==
    (pc # "idle" /\ call.clean) =>
        /\ (~call.ignore_std_streams
              /\ \E p \in Paths : UncommittedAtEntry(p)) =>
              outcome = "DirtyRepository"
        /\ (call.ignore_std_streams
              /\ \E p \in Paths : UncommittedAtEntry(p) /\ ~IsStdStream(p)) =>
              outcome = "DirtyRepository"

\* The expected outcome of a scope that finds nothing to commit.
EmptyOutcome == IF call.raise_if_empty THEN "NothingToCommit" ELSE "returned"

ReachedMessage == Exited /\ outcome \in {"committed", "CommitMessageEmpty"}
\* The command line of the process with the directory of argv[0] and the
\* credentials left out.
CleanCommandLine == <<"renku", " ", "add", " ", "https://", "host/x">>

\* C9 as stated: in a scope that gets as far as the message, the commit
\* message is the caller's string when one is given and the command line
\* without credentials when none is given; a value that is not a string,
\* empty or not, is rejected with CommitMessageEmpty and makes no commit.
C9_AsStated ==
    ReachedMessage =>
        LET m == call.commit_message IN
        /\ (m.type = "str" /\ Truthy(m)) =>
              outcome = "committed" /\ HeadCommit.message = m.val
        /\ m = PyNone =>
              outcome = "committed" /\ HeadCommit.message = CleanCommandLine
        /\ m.type \notin {"str", "NoneType"} =>
              outcome = "CommitMessageEmpty" /\ HEAD = entry.head

\* C10 as stated: when the operation of a commit scope runs a nested
\* commit scope on the same client and both return, the run makes exactly
\* one commit, and under the diff strategy the outer scope's commit holds
\* exactly the changes the outer operation made outside the snapshot.
C10_AsStated ==
    (Exited /\ outer.ran /\ outcome = "committed") =>
        /\ HEAD = entry.head + 1
        /\ call.commit_only = COMMIT_DIFF_STRATEGY =>
              \A p \in Paths :
                  HeadCommit.tree[p] =
                      IF p \in touched \ diff_before THEN wt[p]
                      ELSE EntryTree[p]

\* ------------------------------------------------------------- worktree()
\* worktree() ended in FailedMerge.
MergeFailed == w_pc = "done" /\ w_outcome = "FailedMerge"
\* The isolated branch had a commit when the caller returned: it was
\* started from a commit, or a commit was made on it.
BranchHadCommit == w_args.commit # NULL_TREE \/ w_steps > 0

\* C11: when the merge fails, worktree() raises FailedMerge with the
\* repository, the branch name and the merge arguments it was called with,
\* the merge was attempted once, the original branch is where it was, and
\* the isolated working tree and its branch are still there.
C11_FailedMergeKeepsWorktree ==
    MergeFailed =>
        /\ w_error = [repo |-> "repo", branch_name |-> w_args.branch_name,
                      merge_args |-> w_args.merge_args]
        /\ w_merges = 1
        /\ w_head = SecondCommit
        /\ w_tree
        /\ BranchHadCommit => w_branch # NoCommit

\* C11 witness: a merge failed for a temporary working tree whose branch,
\* started from a commit, holds a commit made in it.
C11_Witness ==
    /\ MergeFailed /\ ~w_args.path /\ w_new_branch /\ ~w_dirty
    /\ w_steps > 0 /\ w_branch # NoCommit /\ w_tree

\* worktree() returned: the merge succeeded and the cleanup raised nothing.
WorktreeReturned == w_pc = "done" /\ w_outcome = "returned"

\* C12 as stated: after a successful merge, a working tree made without an
\* explicit path is removed together with its branch, whether the branch
\* was started from a commit or as an orphan; with an explicit path the
\* working tree and its branch are kept.
C12_AsStated ==
    WorktreeReturned =>
        /\ ~w_args.path => (~w_tree /\ w_branch = NoCommit)
        /\ w_args.path => (w_tree /\ w_branch # NoCommit)

\* ------------------------------------------------------------------ datasets
\* The identifiers of the datasets that exist.
Existing == {p \in 1..Len(d_meta) : d_meta[p] # NoDataset}

\* The last command was this one and ended this way.
Ended(cmd, result) ==
    d_pc = "idle" /\ d_last.cmd = cmd /\ d_last.outcome = result

\* The short-name a create command asked for.
AskedShortName ==
    IF d_last.args.short_name = NoShortName
    THEN DefaultShortName(d_last.name, NoVersion)
    ELSE d_last.args.short_name

\* C13: after any sequence of create, import and remove commands no two
\* existing datasets have the same short-name.  A create fails with
\* DatasetExistsError exactly when a dataset of the short-name it asks for
\* exists, and then metadata, references and history are as before; otherwise
\* it creates the dataset, also when one of the same name exists under
\* another short-name.
C13_ShortNamesUnique ==
    /\ \A p, q \in Existing :
          d_meta[p].short_name = d_meta[q].short_name => p = q
    /\ d_last.cmd = "create" =>
          IF LoadDataset(d_prev.meta, d_prev.refs, AskedShortName) # NoPath
          THEN /\ d_last.outcome = "DatasetExistsError"
               /\ d_meta = d_prev.meta
               /\ d_refs = d_prev.refs
               /\ d_head = d_prev.head
          ELSE /\ d_last.outcome = "committed"
               /\ LoadDataset(d_meta, d_refs, AskedShortName) = Len(d_meta)
               /\ d_meta[Len(d_meta)].name = d_last.name
               /\ \A p \in 1..Len(d_prev.meta) : d_meta[p] = d_prev.meta[p]

\* Two datasets of one name exist under distinct explicit short-names, and
\* a create for an existing short-name has just failed.
C13_Witness ==
    /\ Ended("create", "DatasetExistsError")
    /\ d_last.args.short_name # NoShortName
    /\ \E p, q \in Existing :
          /\ p # q
          /\ d_meta[p].name = d_meta[q].name
          /\ d_meta[p].short_name # d_meta[q].short_name

\* add_file ended with the UsageError of add_to_dataset.
AddFileUsageEnded ==
    pc = "done" /\ call = AddFileCall /\ outcome = "UsageError"

\* C14: when add-files fails with UsageError for its arguments (no URL, or
\* sources or a destination with more than one URL), no dataset was loaded or
\* created and HEAD, the index and the working tree are as before the call.
C14_AsStated ==
    AddFileUsageEnded =>
        /\ AddUsageError(d_last.args.urls, TRUE)
        /\ d_meta = <<>> /\ d_refs = <<>>
        /\ HEAD = entry.head
        /\ wt = entry.wt
        /\ index = entry.index

\* The last command was an add whose arguments passed the checks.
AddRan == d_last.cmd = "add" /\ d_last.outcome # "UsageError"

\* The dataset the last command named existed before it.
ExistedBefore == LoadDataset(d_prev.meta, d_prev.refs, d_last.name) # NoPath

\* Metadata, references and history are as before the last command.
NothingChanged ==
    d_meta = d_prev.meta /\ d_refs = d_prev.refs /\ d_head = d_prev.head

\* The paths an add command was given.
GivenPaths == {d_last.args.urls[i] : i \in 1..Len(d_last.args.urls)}

\* C15: add-files to a short-name that does not exist fails with
\* DatasetNotFound and the hint to use --create when create is false, and
\* creates the dataset, with the files given, when create is true and the
\* paths exist; add-files with create true to a short-name that exists fails
\* and adds nothing.
C15_AddAndCreate ==
    AddRan =>
        /\ ~ExistedBefore /\ ~d_last.args.create =>
              d_last.outcome = DatasetNotFoundHint /\ NothingChanged
        /\ ~ExistedBefore /\ d_last.args.create
              /\ MissingPath \notin GivenPaths =>
              /\ d_last.outcome = "committed"
              /\ LoadDataset(d_meta, d_refs, d_last.name) = Len(d_meta)
              /\ d_meta[Len(d_meta)].short_name = d_last.name
              /\ {d_meta[Len(d_meta)].files[i].path :
                     i \in 1..Len(d_meta[Len(d_meta)].files)} = GivenPaths
              /\ d_head = d_prev.head + 1
        /\ ExistedBefore /\ d_last.args.create =>
              d_last.outcome = "DatasetExistsError" /\ NothingChanged

\* An add without --create failed for a missing dataset, after an add with
\* --create had created another one.
C15_Witness ==
    /\ AddRan /\ ~ExistedBefore /\ ~d_last.args.create
    /\ d_last.outcome = DatasetNotFoundHint
    /\ \E p \in Existing : d_meta[p].files # <<>>

\* The last command was an add with --create to a short-name that did not
\* exist, and it failed after the arguments were checked.
AddCreateFailed ==
    /\ AddRan /\ ~ExistedBefore /\ d_last.args.create
    /\ d_last.outcome # "committed"

\* C16: when add-files with create=true fails after it created the dataset,
\* the reference refs/datasets/<short-name> and the metadata of the new
\* dataset do not exist afterwards, the datasets that existed are as they
\* were, and no commit is made.
C16_FailedAddLeavesNoTrace ==
    AddCreateFailed =>
        /\ d_last.name \notin DOMAIN d_refs
        /\ \A p \in Existing : d_meta[p].short_name # d_last.name
        /\ \A p \in 1..Len(d_meta) :
              d_meta[p] = IF p \in 1..Len(d_prev.meta) THEN d_prev.meta[p]
                          ELSE NoDataset
        /\ d_refs = d_prev.refs
        /\ d_head = d_prev.head

\* An add with --create of a path that does not exist has failed, in a
\* project that has another dataset.
C16_Witness ==
    /\ AddCreateFailed
    /\ d_last.outcome = "ParameterError"
    /\ MissingPath \in GivenPaths
    /\ Existing # {}

\* The files of the dataset the last command named, as they were before it,
\* that pass its include and exclude patterns.
MatchedBefore ==
    LET files == d_prev.meta[LoadDataset(d_prev.meta, d_prev.refs,
                                         d_last.name)].files
    IN  {files[i].path : i \in 1..Len(files)} \cap
        {f \in Files : IncludeExclude(f, d_last.args.include,
                                      d_last.args.exclude)}

\* The files the dataset the last command named has now.
FilesNow ==
    LET files == d_meta[LoadDataset(d_meta, d_refs, d_last.name)].files
    IN  {files[i].path : i \in 1..Len(files)}

\* C17: unlink fails with ParameterError when no file of the dataset passes
\* the include and exclude patterns; nothing is removed before the caller's
\* confirmation returns; when the caller declines, the files are as before
\* and no commit is made; when the caller confirms, none of the matched
\* files is among the files of the dataset.
C17_AsStated ==
    d_last.cmd = "unlink" /\ ExistedBefore =>
        /\ MatchedBefore = {} => d_last.outcome = "ParameterError"
        /\ d_pc = "confirm" => NothingChanged
        /\ d_last.outcome = "Abort" => NothingChanged
        /\ d_last.outcome = "committed" => FilesNow \cap MatchedBefore = {}

\* The metadata paths the names of the last rm resolved to.
RemovedPaths == {GetDatasetPath(d_prev.refs, n) : n \in d_last.args.names}

\* C18: after dataset remove succeeds the metadata of each named dataset and
\* every reference to it are deleted, the other datasets and the references
\* to them are as before, loading a removed dataset by its name gives
\* nothing, and a create or an import with its short-name succeeds.
C18_RemoveDeletesDataset ==
    Ended("rm", "committed") =>
        /\ \A p \in RemovedPaths : d_meta[p] = NoDataset
        /\ \A r \in DOMAIN d_prev.refs :
              IF d_prev.refs[r] \in RemovedPaths
              THEN r \notin DOMAIN d_refs
              ELSE r \in DOMAIN d_refs /\ d_refs[r] = d_prev.refs[r]
        /\ DOMAIN d_refs \subseteq DOMAIN d_prev.refs
        /\ \A p \in 1..Len(d_meta) \ RemovedPaths : d_meta[p] = d_prev.meta[p]
        /\ \A n \in d_last.args.names :
              /\ LoadDataset(d_meta, d_refs, n) = NoPath
              /\ ClientCreateDataset(d_meta, d_refs, n, n).error = ""
              /\ AddToDataset(d_meta, d_refs, <<"f1">>, n, TRUE, TRUE, FALSE,
                              [name |-> n, version |-> NoVersion],
                              Now).error = ""

\* A dataset was removed while another one, with its reference, stayed.
C18_Witness ==
    /\ Ended("rm", "committed")
    /\ d_head = d_prev.head + 1
    /\ Existing # {}
    /\ DOMAIN d_refs # {}

\* The tags the dataset the last command named had before it, and has now.
TagsBefore ==
    d_prev.meta[LoadDataset(d_prev.meta, d_prev.refs, d_last.name)].tags
TagsNow == d_meta[LoadDataset(d_meta, d_refs, d_last.name)].tags

\* C19: no dataset has two tags of one name.  A tag command for a name that
\* is a tag of the dataset fails without force and leaves everything as it
\* was; an rm-tags command with a name that is no tag of the dataset fails
\* with 'not found' and leaves everything as it was; an rm-tags command with
\* tags of the dataset succeeds, after it the dataset has the other tags
\* only, a listing does not show the removed ones, and removing one of them
\* again fails with 'not found'.
C19_TagNamesUnique ==
    /\ \A p \in Existing : \A i, j \in 1..Len(d_meta[p].tags) :
          d_meta[p].tags[i].name = d_meta[p].tags[j].name => i = j
    /\ d_last.cmd = "tag" /\ ExistedBefore
          /\ d_last.args.tag \in TagNamesOf(TagsBefore)
          /\ ~d_last.args.force =>
          d_last.outcome = "ParameterError: already exists" /\ NothingChanged
    /\ d_last.cmd = "rm-tags" /\ ExistedBefore =>
          IF d_last.args.tags \ TagNamesOf(TagsBefore) # {}
          THEN d_last.outcome = "ParameterError: not found" /\ NothingChanged
          ELSE /\ d_last.outcome = "committed"
               /\ TagsNow = SelectTags(TagsBefore,
                     TagNamesOf(TagsBefore) \ d_last.args.tags)
               /\ \A t \in d_last.args.tags :
                     /\ t \notin TagNamesOf(
                           ListTags(d_meta, d_refs, d_last.name).tags)
                     /\ RemoveDatasetTags(d_meta, d_refs, d_last.name,
                                          {t}).error
                           = "ParameterError: not found"

\* The second removal of a tag has just failed: the dataset was tagged, the
\* tag was removed, and it was removed again.
C19_Witness ==
    /\ Ended("rm-tags", "ParameterError: not found")
    /\ d_ops = 3
    /\ TagsNow = <<>>
    /\ d_head = 4

\* C20: a tag records the HEAD commit at the moment of tagging, which is the
\* parent of the commit that stores the tag; ls-tags lists exactly the tags
\* of the dataset, each with the commit it recorded, by creation time.
C20_TagRecordsHead ==
    /\ Ended("tag", "committed") =>
          LET t == TagsNow[Len(TagsNow)]
          IN  /\ t.name = d_last.args.tag
              /\ t.commit = d_prev.head
              /\ d_head = t.commit + 1
              /\ \A i \in 1..Len(TagsNow) - 1 :
                    /\ TagsNow[i] \in {TagsBefore[j] : j \in 1..Len(TagsBefore)}
                    /\ TagsNow[i].created < t.created
    /\ Ended("ls-tags", "returned") =>
          /\ {d_listing[i] : i \in 1..Len(d_listing)}
                = {TagsNow[i] : i \in 1..Len(TagsNow)}
          /\ Len(d_listing) = Len(TagsNow)
          /\ \A i, j \in 1..Len(d_listing) :
                i < j => d_listing[i].created < d_listing[j].created
          /\ NothingChanged

\* Two tags made one after the other have been listed: the first with the
\* commit before it, the second with the commit that stores the first.
C20_Witness ==
    /\ Ended("ls-tags", "returned")
    /\ Len(d_listing) = 2
    /\ d_listing[1].commit = 2
    /\ d_listing[2].commit = 3
    /\ d_head = 4

\* The records the last update selected, and the repositories those with a
\* based_on come from.
UpdateSelected ==
    Filter(d_prev.meta, d_last.args.names, {}, d_last.args.include,
           d_last.args.exclude)

UpdateLineage ==
    {UpdateSelected[i].based_on.url : i \in
        {j \in 1..Len(UpdateSelected) :
            UpdateSelected[j].based_on # NoBasedOn}}

\* The selected files with a based_on whose upstream is gone at the target.
UpdateGone ==
    {<<UpdateSelected[i].dataset, UpdateSelected[i].path>> : i \in
        {j \in 1..Len(UpdateSelected) :
            UpdateSelected[j].based_on # NoBasedOn}} \cap d_last.args.gone

\* The files the metadata lists, by dataset and path.
ListedFiles(meta) ==
    UNION {{<<p, meta[p].files[i].path>> : i \in 1..Len(meta[p].files)} :
              p \in {q \in 1..Len(meta) : meta[q] # NoDataset}}

\* C21: an update with a ref whose selected files with a based_on come from
\* more than one repository, and an update that matches no file, end with
\* ParameterError, and neither has updated a file or the metadata.
C21_UpdateRejections ==
    (/\ d_pc = "idle" /\ d_last.cmd = "update"
     /\ \/ UpdateSelected = <<>>
        \/ d_last.args.ref /\ Cardinality(UpdateLineage) > 1)
    => /\ d_last.outcome = "ParameterError"
       /\ NothingChanged
       /\ x_update = NoUpdate

\* An update with a ref was rejected for files from two repositories, one of
\* which is gone upstream and was to be deleted.
C21_Witness ==
    /\ Ended("update", "ParameterError")
    /\ d_last.args.ref /\ d_last.args.delete
    /\ Cardinality(UpdateLineage) > 1
    /\ UpdateGone # {}

\* C22: when update finds files whose upstream is gone at the target, then
\* without delete the local copies stay and the message is printed, and
\* with delete the local copies are removed and no message is printed.
C22_DeletedUpstream ==
    (/\ d_pc = "idle" /\ d_last.cmd = "update"
     /\ d_last.outcome # "ParameterError"
     /\ UpdateGone # {})
    => IF d_last.args.delete
       THEN /\ x_update.removed = UpdateGone
            /\ UpdateGone \cap ListedFiles(d_meta) = {}
            /\ ~x_update.echo
       ELSE /\ x_update.removed = {}
            /\ UpdateGone \subseteq ListedFiles(d_meta)
            /\ x_update.echo

\* An update with delete removed a file whose upstream is gone.
C22_Witness ==
    /\ Ended("update", "committed")
    /\ d_last.args.delete
    /\ UpdateGone # {}
    /\ x_update.removed # {}

\* The last command was an export that got as far as the provider.
Exported == d_pc = "idle" /\ d_last.cmd = "export" /\ x_http # <<>>

\* A call of the last export was answered with this status.
Answered(status) == \E i \in 1..Len(x_http) : x_http[i].status = status

\* The last command ended with an error.
Raised == d_last.outcome \notin {"committed", "returned"}

\* C23 as stated: when the provider answers an export with unauthorized,
\* the error reaches the caller and no token is stored for the provider
\* afterwards.
C23_AsStated ==
    (Exported /\ Answered(401))
    => /\ Raised
       /\ x_token[d_last.args.provider] = NoToken

\* The tags of the exported dataset, and the commit the export is to use.
ExportTags == d_prev.meta[1].tags

ExpectedCommit ==
    IF d_last.args.tag # NoTag
    THEN (CHOOSE t \in {ExportTags[i] : i \in 1..Len(ExportTags)} :
              t.name = d_last.args.tag).commit
    ELSE IF d_last.args.tag_result > 0 /\ ExportTags # <<>>
    THEN ExportTags[d_last.args.tag_result].commit
    ELSE d_prev.head

\* The paths of the files the dataset had at a commit.
FilesAt(commit) ==
    [i \in 1..Len(x_history[commit][1].files) |->
        x_history[commit][1].files[i].path]

\* C24: an export of a named tag the dataset does not have ends with
\* ValueError before any call to the provider; any other export that reaches
\* the provider exports from the commit of the named tag, else of the tag
\* the callback selected, else from HEAD, and uploads the files the dataset
\* had at that commit.
C24_ExportsSelectedCommit ==
    /\ (/\ d_pc = "idle" /\ d_last.cmd = "export"
        /\ d_last.args.provider \in Providers
        /\ d_last.args.tag # NoTag
        /\ \A i \in 1..Len(ExportTags) : ExportTags[i].name # d_last.args.tag)
       => /\ d_last.outcome = "ValueError: Tag not found"
          /\ x_http = <<>>
    /\ Exported
       => /\ x_export.commit = ExpectedCommit
          /\ x_export.files = FilesAt(ExpectedCommit)
          /\ d_last.outcome = "committed"
               => Len(SelectSeq(x_http, LAMBDA c : c.call = "upload"))
                    = Len(FilesAt(ExpectedCommit))

\* An export of tag 1.0 uploaded the one file the dataset had at that tag,
\* while the dataset at HEAD has two.
C24_Witness ==
    /\ Exported
    /\ d_last.outcome = "committed"
    /\ d_last.args.tag = "1.0"
    /\ x_export.files = <<"f1">>
    /\ Len(d_meta[1].files) = 2

\* C27 as stated: when a call of the deposit is answered with an error
\* status, the export ends with an error, makes no further call and
\* reports no destination.
C27_AsStated ==
    Exported
    => \A i \in 1..Len(x_http) :
          Failed(x_http[i].status)
          => /\ Raised
             /\ i = Len(x_http)
             /\ x_export.destination = NoDestination

\* The text has the user:password part of a URL in it.
HasCredentials(text) == \E i \in 1..Len(text) : text[i] = CRED

\* C25: what is persisted of a URL given to add or to import, and the
\* commit message derived from the command line, holds no credentials, and
\* the URL is stored as it was given but for its user:password part.
C25_NoCredentialsPersisted ==
    \A r \in c_persisted :
        /\ ~HasCredentials(r.stored)
        /\ r.site \in {"file", "dataset"}
              => r.stored = <<r.given[1], r.given[Len(r.given)]>>
        /\ r.site = "message"
              => \E url \in GivenUrls :
                    /\ r.stored = <<"renku", " ", "dataset", " ", "add", " ",
                                    url[1], url[Len(url)]>>
                    /\ r.given = <<"/usr/bin/", "renku", " ", "dataset",
                                   " ", "add", " ">> \o url

\* A URL with credentials was given to import, to add and on the command
\* line of a commit, and was stored without them.
C25_Witness ==
    /\ \E r \in c_persisted :
          /\ r.site = "dataset" /\ HasCredentials(r.given)
          /\ r.stored = <<"https://", "example.com/index.html">>
    /\ \E r \in c_persisted : r.site = "file" /\ HasCredentials(r.given)
    /\ \E r \in c_persisted : r.site = "message" /\ HasCredentials(r.given)

\* C26 as stated: the tag name import makes of a version keeps every
\* character of [a-zA-Z0-9.\-_], the hyphen included, has '_' for every
\* other character, and the tagging does not fail on it.
C26_AsStated ==
    v_tag.outcome \notin {"none", "imported"}
    => /\ Len(v_tag.tag_name) = Len(v_tag.version)
       /\ \A i \in 1..Len(v_tag.version) :
             v_tag.tag_name[i] = IF ValidTagChar(v_tag.version[i])
                                 THEN v_tag.version[i] ELSE 95
       /\ v_tag.outcome = "tagged"

\* A file is at least one second older than the process start.
Old(f) == STARTED_AT - ctime[f] >= FRESH_MS

\* The scope is under the diff strategy and its operation has not yet acted.
DiffEntered ==
    /\ pc = "op" /\ steps = 0
    /\ call.commit /\ call.commit_only = COMMIT_DIFF_STRATEGY

\* C28: the snapshot of the diff strategy holds exactly the untracked files
\* that are at least one second older than the process start; an untracked
\* file that is younger, was there before the operation and was not touched
\* by it is in the commit the scope makes.
C28_SnapshotLeavesOutYoungFiles ==
    /\ DiffEntered
       => diff_before = {f \in Paths : /\ wt[f] # Absent
                                       /\ index[f] = Absent
                                       /\ Old(f)}
    /\ (outcome = "committed" /\ DiffCommitted)
       => \A g \in Paths :
             (/\ ~Old(g)
              /\ g \in UntouchedUntracked
              /\ EntryTree[g] = Absent) =>
                /\ g \notin diff_before
                /\ HeadCommit.tree[g] = wt[g]
                /\ g \notin Untracked(index, wt)

\* An untracked file younger than one second that the operation did not
\* touch was committed, while an older one stayed out of the commit.
C28_Witness ==
    /\ DiffCommitted
    /\ \E g \in UntouchedUntracked :
          /\ EntryTree[g] = Absent /\ ~Old(g)
          /\ HeadCommit.tree[g] = wt[g] /\ wt[g] # Absent
    /\ \E f \in diff_before : HeadCommit.tree[f] = Absent

\* The scope ran under the diff strategy around an operation that changed
\* no path, and ended.
DiffNoChange ==
    /\ Exited /\ call.commit_only = COMMIT_DIFF_STRATEGY
    /\ touched = {}

\* C29 as stated: under the diff strategy, when the operation changes no
\* path, the files that were untracked before are untracked afterwards and
\* in no commit, and with commit_empty off and raise_if_empty set the scope
\* ends in NothingToCommit.
C29_AsStated ==
    DiffNoChange
    => /\ \A g \in Untracked(entry.index, entry.wt) :
             /\ g \in Untracked(index, wt)
             /\ HeadCommit.tree[g] = EntryTree[g]
       /\ (~call.commit_empty /\ call.raise_if_empty)
             => outcome = "NothingToCommit"

\* The scope ran under the diff strategy and its operation raised.
DiffRaised ==
    /\ Done /\ call.commit /\ call.commit_only = COMMIT_DIFF_STRATEGY
    /\ outcome = "OperationError"

\* C30 as stated: when the operation raises under the diff strategy the
\* index is the index at scope entry.
C30_AsStated == DiffRaised => index = entry.index

\* The operation inside worktree() raised.
WorkRaised == w_pc = "done" /\ w_outcome = "OperationError"
\* The commit the isolated branch was started at.
BranchStart ==
    IF w_args.commit = NULL_TREE THEN NoCommit
    ELSE IF w_args.commit = CommitNone THEN SecondCommit
    ELSE w_args.commit.id

\* C31: when the operation inside worktree() raises, no merge is attempted:
\* the original branch is at the commit it was at before worktree() was
\* entered, the history holds no commit but the ones made inside, and the
\* isolated working tree and its branch, with the commits made on it, are
\* still there.
C31_RaiseAttemptsNoMerge ==
    WorkRaised =>
        /\ w_merges = 0
        /\ w_head = SecondCommit
        /\ w_error = NoError
        /\ Cardinality(DOMAIN w_parents) =
               Cardinality(DOMAIN InitParents) + w_steps
        /\ w_tree
        /\ w_branch = IF w_steps = 0 THEN BranchStart
                      ELSE Cardinality(DOMAIN w_parents)

\* C31 witness: the operation raised after it had made a commit on an
\* isolated branch that a fast-forward merge would have brought back.
C31_Witness ==
    /\ WorkRaised /\ w_steps > 0 /\ w_tree /\ w_merges = 0
    /\ w_args.merge_args = FfOnly /\ w_args.commit = CommitNone
    /\ w_branch \notin Ancestors(w_parents, w_head)

\* ------------------------------------------------------------------- init
\* A forced init of a repository went through its exit stack without an
\* exception in the body.
ForcedInitUnwound ==
    /\ i_init.pc = "done" /\ i_init.force
    /\ i_init.outcome \in {"returned", "FailedMerge", "GitCommandError"}
\* The commit made inside the isolated working tree.
InitCommitMade == Cardinality(DOMAIN InitParents) + 1

\* C32: in a forced init of a repository the commit is made on the
\* isolated branch before that branch is merged: the merge is attempted
\* once, with the commit already on the branch, the branch started at the
\* earlier metadata commit or as an orphan when there is none; the merge
\* arguments are --no-ff -s recursive -X ours, with
\* --allow-unrelated-histories exactly for the orphan; and when the merge
\* succeeds the original branch is at a merge commit of its earlier commit
\* and the commit made inside.
C32_InitCommitsThenMerges ==
    ForcedInitUnwound =>
        /\ i_init.trace = <<"worktree.enter", "init_repository",
                            "commit.enter", "body", "commit",
                            "worktree.exit", "merge">>
        /\ w_merges = 1
        /\ InitCommitMade \in DOMAIN w_parents
        /\ w_parents[InitCommitMade] =
               IF i_init.previous = NoCommit THEN {}
               ELSE {i_init.previous}
        /\ w_args.commit = IF i_init.previous = NoCommit THEN NULL_TREE
                           ELSE CommitArg(i_init.previous)
        /\ w_new_branch = (i_init.previous # NoCommit)
        /\ \A i \in 1..Len(InitMergeArgs) :
              w_args.merge_args[i] = InitMergeArgs[i]
        /\ HasArg(w_args.merge_args, "--allow-unrelated-histories")
               = (i_init.previous = NoCommit)
        /\ Len(w_args.merge_args) =
               Len(InitMergeArgs) + IF i_init.previous = NoCommit THEN 1 ELSE 0
        /\ i_init.outcome # "FailedMerge" =>
              /\ w_head \notin {SecondCommit, InitCommitMade}
              /\ w_parents[w_head] = {SecondCommit, InitCommitMade}
        /\ i_init.outcome = "FailedMerge" =>
              /\ w_head = SecondCommit
              /\ w_branch = InitCommitMade

\* C32 witness: a forced init of a repository without an earlier metadata
\* commit ended with the orphan branch's commit merged into the original
\* branch.
C32_Witness ==
    /\ ForcedInitUnwound /\ i_init.outcome = "returned"
    /\ i_init.previous = NoCommit
    /\ w_args.commit = NULL_TREE
    /\ w_parents[InitCommitMade] = {}
    /\ w_parents[w_head] = {SecondCommit, InitCommitMade}

\* init ended.
InitEnded == i_init.pc = "done"

\* C33 as stated: when init has ended, on whatever path, no scope it
\* entered is still open.
C33_AsStated == InitEnded => i_init.open = {}

\* ------------------------------------------------------------ depositions
\* The calls made on the deposition, and the last export.
Log == p_deposition.log
Export == p_deposition.export
NotCreated == "ValueError: Dataset not created."
\* A create_dataset before the i-th call was answered with 201.
CreatedBefore(i) ==
    \E j \in 1..(i - 1) :
        /\ Log[j].method = "create"
        /\ Log[j].http[1].status = HTTP_CREATED

\* C34: upload_file and publish_dataset raise ValueError('Dataset not
\* created.'), without a request, exactly when no create_dataset on the
\* deposition was answered with 201 before, and otherwise send their one
\* request; create_dataset sends one request, raises OperationError
\* exactly when the answer is not 201, and leaves the identifier unset
\* until an answer is 201; export calls create once, and when that
\* succeeded one upload per file and then publish exactly when asked to.
C34_DepositOrdered ==
    /\ \A i \in 1..Len(Log) :
          /\ Log[i].method \in {"upload", "publish"} =>
                /\ Log[i].error = NotCreated <=> ~CreatedBefore(i)
                /\ Log[i].error # NotCreated =>
                      /\ Log[i].error = ""
                      /\ Len(Log[i].http) = 1
                      /\ Log[i].http[1].call = Log[i].method
                /\ Log[i].error = NotCreated => Log[i].http = <<>>
          /\ Log[i].method = "create" =>
                /\ Len(Log[i].http) = 1
                /\ Log[i].http[1].call = "create"
                /\ Log[i].error =
                      IF Log[i].http[1].status = HTTP_CREATED THEN ""
                      ELSE "OperationError"
    /\ p_deposition.dataset_pid # NoDestination
          <=> CreatedBefore(Len(Log) + 1)
    /\ Export.error # "none" =>
          /\ Len(Export.http) >= 1
          /\ Export.http[1].call = "create"
          /\ \A i \in 2..Len(Export.http) : Export.http[i].call # "create"
          /\ IF Export.http[1].status # HTTP_CREATED
             THEN Len(Export.http) = 1 /\ Export.error = "OperationError"
             ELSE /\ Export.error = ""
                  /\ Len(Export.http) = 1 + Len(Export.files)
                                        + IF Export.publish THEN 1 ELSE 0
                  /\ \A i \in 1..Len(Export.files) :
                        Export.http[1 + i].call = "upload"
                  /\ Export.publish =>
                        Export.http[Len(Export.http)].call = "publish"

\* C34 witness: an upload was refused on a deposition nothing was created
\* on, a create was answered with 201 and the next upload went out; and an
\* export of two files with publish made its four calls.
C34_Witness ==
    /\ Len(Log) = 3
    /\ Log[1].method = "upload" /\ Log[1].error = NotCreated
    /\ Log[2].method = "create" /\ Log[2].error = ""
    /\ Log[3].method = "upload" /\ Log[3].error = ""
    /\ Len(Log[3].http) = 1
    /\ Export.publish /\ Len(Export.files) = 2 /\ Len(Export.http) = 4

\* The last command was an export that found no token stored for its
\* provider, after the dataset, the provider and the tag were found.
ExportAskedToken ==
    /\ d_pc = "idle" /\ d_last.cmd = "export"
    /\ d_last.args.provider \in Providers
    /\ d_last.args.stored = NoToken
    /\ d_last.outcome \notin {"DatasetNotFound", "ValueError: Tag not found"}

\* C35: an export that finds no stored token fails with InvalidAccessToken,
\* stores nothing and makes no call to the provider when there is no
\* callback or the callback gives nothing or the empty string; otherwise
\* the exporter made its calls with the token the callback gave, which was
\* stored when the calls were made.
C35_TokenBeforeExport ==
    ExportAskedToken =>
        IF d_last.args.entered \in {NoCallback, NoToken, EmptyToken}
        THEN /\ d_last.outcome = "InvalidAccessToken"
             /\ x_token[d_last.args.provider] = NoToken
             /\ x_http = <<>>
             /\ x_export = NoExport
        ELSE /\ d_last.outcome # "InvalidAccessToken"
             /\ x_http # <<>>
             /\ x_export.access_token = d_last.args.entered
             /\ x_export.stored = d_last.args.entered
             /\ x_token[d_last.args.provider] \in {d_last.args.entered, NoToken}
             /\ x_token[d_last.args.provider] = NoToken
                   => IsHTTPError(d_last.outcome)

\* C35 witness: after an export without a callback was refused, an export
\* whose callback gave a token went out with it and the token is stored.
C35_Witness ==
    /\ ExportAskedToken /\ d_ops = 2
    /\ d_last.args.entered \in Tokens
    /\ x_http # <<>>
    /\ x_export.access_token = d_last.args.entered
    /\ x_token[d_last.args.provider] = d_last.args.entered

\* The last command was an import whose lookup or confirmation failed.
ImportRefused ==
    /\ d_pc = "idle" /\ d_last.cmd = "import"
    /\ d_last.args.uri # "found" \/ d_last.args.prompt = "no"

\* C36: an import whose URI no provider accepts, whose record is not found
\* or lacks a field ends with ParameterError, one whose prompt is declined
\* is aborted, and after either the datasets, their tags, the references
\* and the history are what they were before; an import that changed any
\* of them had its record found and was not declined.
C36_ImportNeedsLookup ==
    /\ ImportRefused =>
          /\ d_last.outcome = IF d_last.args.uri # "found"
                              THEN "ParameterError" ELSE "Abort"
          /\ d_meta = d_prev.meta
          /\ d_refs = d_prev.refs
          /\ d_head = d_prev.head
    /\ (/\ d_pc = "idle" /\ d_last.cmd = "import"
        /\ (d_meta # d_prev.meta \/ d_refs # d_prev.refs
            \/ d_head # d_prev.head))
          => (d_last.args.uri = "found" /\ d_last.args.prompt # "no")

\* C36 witness: the prompt of an import of a record with a file and a
\* version was declined, in a project that holds an imported dataset.
C36_Witness ==
    /\ ImportRefused
    /\ d_last.args.prompt = "no"
    /\ d_last.args.files # <<>>
    /\ d_last.args.version # NoVersion
    /\ d_last.outcome = "Abort"
    /\ Existing # {}

\* The records file_unlink yielded, as the dataset and path of each.
UnlinkRecords ==
    {<<d_unlink.records[i].dataset, d_unlink.records[i].path>> :
        i \in 1..Len(d_unlink.records)}

\* C37 as stated: the records unlink yields for a dataset are exactly the
\* files of that dataset that pass the include and exclude patterns, and
\* unlink does not fail for want of records when one of its files passes.
C37_AsStated ==
    d_last.cmd = "unlink" /\ ExistedBefore =>
        /\ d_pc = "confirm" =>
              UnlinkRecords =
                  {<<LoadDataset(d_prev.meta, d_prev.refs, d_last.name), f>> :
                      f \in MatchedBefore}
        /\ MatchedBefore # {} => d_last.outcome # "ParameterError"

\* The last command was ls-files.
Listing == d_pc = "idle" /\ d_last.cmd = "ls-files"
\* The datasets ls-files was asked for.
ListedDatasets ==
    {p \in Existing : \/ d_last.args.names = {}
                      \/ d_meta[p].short_name \in d_last.args.names}
\* A file path passes the patterns of the last command.
Passes(path) ==
    /\ \A pattern \in d_last.args.exclude : ~Match(path, pattern)
    /\ d_last.args.include # {} =>
          \E pattern \in d_last.args.include : Match(path, pattern)

\* C38: the files ls-files lists are those of the datasets asked for that
\* match no exclude pattern and, when include patterns are given, one of
\* them; with no pattern given every file is listed; each is listed once,
\* and they are listed in non-decreasing order of the time they were added.
C38_FilterPassesAndSorts ==
    Listing =>
        /\ {<<d_listing[i].dataset, d_listing[i].path>> :
               i \in 1..Len(d_listing)}
           = UNION {{<<p, d_meta[p].files[k].path>> :
                        k \in {k \in 1..Len(d_meta[p].files) :
                                  Passes(d_meta[p].files[k].path)}} :
                    p \in ListedDatasets}
        /\ \A i, j \in 1..Len(d_listing) :
              /\ i < j => d_listing[i].added <= d_listing[j].added
              /\ (/\ d_listing[i].dataset = d_listing[j].dataset
                  /\ d_listing[i].path = d_listing[j].path) => i = j
        /\ (d_last.args.include = {} /\ d_last.args.exclude = {}) =>
              Len(d_listing) = Cardinality(UNION {
                  {<<p, k>> : k \in 1..Len(d_meta[p].files)} :
                  p \in ListedDatasets})

\* C38 witness: a file that an include pattern matches is left out for an
\* exclude pattern, and of the two files listed the one of the later
\* dataset was added first and comes first.
C38_Witness ==
    /\ Listing
    /\ d_last.args.include # {} /\ d_last.args.exclude # {}
    /\ \E p \in ListedDatasets : \E k \in 1..Len(d_meta[p].files) :
          /\ \E pattern \in d_last.args.include :
                Match(d_meta[p].files[k].path, pattern)
          /\ ~Passes(d_meta[p].files[k].path)
    /\ Len(d_listing) = 2
    /\ d_listing[1].dataset > d_listing[2].dataset
    /\ d_listing[1].added < d_listing[2].added

\* The last command was a remove, and the names it was given that did not
\* resolve to an existing dataset.
RemoveRan == d_pc = "idle" /\ d_last.cmd = "rm"
UnknownNames ==
    {n \in d_last.args.names :
        ~MetadataExists(d_prev.meta, GetDatasetPath(d_prev.refs, n))}

\* C39: a remove that is given no name, or a name that resolves to no
\* existing dataset, ends with ParameterError, and every metadata file and
\* every reference is as before it, those of the other names it was given
\* included; no commit is made.
C39_RemoveValidatesFirst ==
    (RemoveRan /\ (d_last.args.names = {} \/ UnknownNames # {})) =>
        /\ d_last.outcome = "ParameterError"
        /\ d_meta = d_prev.meta
        /\ d_refs = d_prev.refs
        /\ d_head = d_prev.head

\* C39 witness: a remove was given the name of an existing dataset and an
\* unknown name, it was refused and the dataset is still there.
C39_Witness ==
    /\ RemoveRan /\ d_last.outcome = "ParameterError"
    /\ UnknownNames # {}
    /\ \E n \in d_last.args.names \ UnknownNames :
          /\ LoadDataset(d_meta, d_refs, n) # NoPath
          /\ n \in DOMAIN d_refs

\* The file was untracked, or staged, when the scope was entered.
UntrackedAtEntry(p) == p \in Untracked(entry.index, entry.wt)
StagedAtEntry(p) == p \in DiffIndexHead(entry.index, EntryTree)

\* C40 as stated: a scope with an allow-list raises DirtyRenkuDirectory
\* only when a file that is a listed path or lies under one is untracked
\* or staged at entry.
C40_AsStated ==
    (/\ pc # "idle" /\ call.commit /\ call.commit_only.kind = "list"
     /\ outcome = "DirtyRenkuDirectory") =>
        \E p \in Paths :
            /\ Listed(p)
            /\ UntrackedAtEntry(p) \/ StagedAtEntry(p)

====
